---- MODULE Spec2Model ----
(***************************************************************************)
(* Model of the Keithley SMU control core (src/connection.py) and of the   *)
(* sweep executor that drives it (src/gui.py).                              *)
(*                                                                         *)
(* A method of KeithleyConnection is an operator from a call state m to    *)
(* the SET of call states it can end in: every transport operation either  *)
(* is delivered or raises, every query returns one of the answers the      *)
(* instrument can give.  m.exc carries the exception in flight, m.wire the  *)
(* transport operations issued so far in the current handler.              *)
(***************************************************************************)
EXTENDS Integers, Sequences, FiniteSets, TLC

VARIABLES conn, dev, ui, wire, ret, gen

vars == <<conn, dev, ui, wire, ret, gen>>

-----------------------------------------------------------------------------
(* Bounds *)

\* transport failures / device-reported errors injected per call of a
\* session operation, and per event handler of the panel
MaxFaults == 2
PanelFaults == 1
\* longest sweep plan
MaxPoints == 2
\* step callbacks that may be pending besides the one sweep_after_id names
MaxOrphans == 1
\* largest magnitude tried by the validator sweep beyond the limits
ValMargin == 3
\* longest grid, in steps, and most cycles handed to the sweep generators
MaxGrid == 12
MaxCycles == 2
\* longest hold phase, in time units
MaxHold == 6
\* transport failures and device-reported errors in one error drain
DrainFaults == 3

-----------------------------------------------------------------------------
(* Program constants *)

MAX_ABS_VOLTAGE == 210
MAX_COMPLIANCE_UA == 1000000
BASE_TIMEOUT == 5000
\* 9.9e37 A, in units of 1e36 A
OVERFLOW == 99
MIN_FAST_TIMEOUT == 20000
MAX_FAST_TIMEOUT == 300000

-----------------------------------------------------------------------------
(* Values.  A Python number is [t, n]: t = "fin" for a finite int/float of  *)
(* value n, "inf" (n = 1 or -1), "nan", or "str" for a non-number object.   *)

Fin(n) == [t |-> "fin", n |-> n]
PosInf == [t |-> "inf", n |-> 1]
NegInf == [t |-> "inf", n |-> -1]
NaN == [t |-> "nan", n |-> 0]
NotANumber == [t |-> "str", n |-> 0]

IsNumber(x) == x.t \in {"fin", "inf", "nan"}
IsFinite(x) == x.t = "fin"
Abs(n) == IF n < 0 THEN -n ELSE n
Max(a, b) == IF a >= b THEN a ELSE b
Min(a, b) == IF a <= b THEN a ELSE b

-----------------------------------------------------------------------------
(* Exceptions *)

\* msg: the message; tried: the resource names it lists; cause: the
\* underlying transport error it quotes; codes: the device error codes it lists.
NoExc == [msg |-> "none", tried |-> <<>>, cause |-> "none", codes |-> <<>>]
Exc(msg) == [msg |-> msg, tried |-> <<>>, cause |-> "none", codes |-> <<>>]
Raised(m) == m.exc.msg # "none"
Raise(m, msg) == [m EXCEPT !.exc = Exc(msg)]

(* SafetyValidator *)

\* Variant: the limit itself is rejected.
_validate_voltage_strict(voltage) ==
    IF ~IsNumber(voltage) \/ ~IsFinite(voltage)
    THEN "Voltage must be a finite number"
    ELSE IF Abs(voltage.n) >= MAX_ABS_VOLTAGE
         THEN "Voltage exceeds allowed range"
         ELSE "none"

_validate_voltage(voltage) ==
    IF ~IsNumber(voltage) \/ ~IsFinite(voltage)
    THEN "Voltage must be a finite number"
    ELSE IF Abs(voltage.n) > MAX_ABS_VOLTAGE
         THEN "Voltage exceeds allowed range"
         ELSE "none"

\* Variant: zero is accepted.
_validate_compliance_closed(compliance_ua) ==
    IF ~IsNumber(compliance_ua) \/ ~IsFinite(compliance_ua)
    THEN "Compliance must be a finite number"
    ELSE IF compliance_ua.n < 0
         THEN "Compliance must be greater than 0 uA"
         ELSE IF compliance_ua.n > MAX_COMPLIANCE_UA
              THEN "Compliance exceeds allowed range"
              ELSE "none"

_validate_compliance(compliance_ua) ==
    IF ~IsNumber(compliance_ua) \/ ~IsFinite(compliance_ua)
    THEN "Compliance must be a finite number"
    ELSE IF compliance_ua.n <= 0
         THEN "Compliance must be greater than 0 uA"
         ELSE IF compliance_ua.n > MAX_COMPLIANCE_UA
              THEN "Compliance exceeds allowed range"
              ELSE "none"

-----------------------------------------------------------------------------
(* Text.  A string the code inspects is a sequence of one-character strings. *)

LowerChars == <<"a","b","c","d","e","f","g","h","i","j","k","l","m",
                "n","o","p","q","r","s","t","u","v","w","x","y","z">>
UpperChars == <<"A","B","C","D","E","F","G","H","I","J","K","L","M",
                "N","O","P","Q","R","S","T","U","V","W","X","Y","Z">>

UpperChar(ch) ==
    IF \E i \in 1..26 : LowerChars[i] = ch
    THEN UpperChars[CHOOSE i \in 1..26 : LowerChars[i] = ch]
    ELSE ch

Upper(s) == [i \in 1..Len(s) |-> UpperChar(s[i])]

StartsWith(s, p) == Len(p) <= Len(s) /\ SubSeq(s, 1, Len(p)) = p

Contains(s, p) ==
    \E i \in 0..(Len(s) - Len(p)) : SubSeq(s, i + 1, i + Len(p)) = p

-----------------------------------------------------------------------------
(* The instrument and the transport. *)

\* A resource name <kind><bus>::<addr>::INSTR.
Res(kind, bus, addr) == [kind |-> kind, bus |-> bus, addr |-> addr]

TransportError == "VisaIOError"

\* A reply: k = "num" for text holding a numeric literal of value n, "text"
\* for the text s, "pairs" for n well-formed 'v,i;' pairs, "garbage" otherwise.
NoResp == [k |-> "none", n |-> 0, s |-> <<>>]
Num(n) == [k |-> "num", n |-> n, s |-> <<>>]
Text(s) == [k |-> "text", n |-> 0, s |-> s]
Pairs(n) == [k |-> "pairs", n |-> n, s |-> <<>>]
Garbage == [k |-> "garbage", n |-> 0, s |-> <<>>]

\* One transport operation of the current handler, as the wire saw it:
\* err = "" when it went through, else the error it raised; resp is the
\* reply a query read.
IO(op, cmd, v, a, err) ==
    [op |-> op, cmd |-> cmd, v |-> v, a |-> a, ok |-> (err = ""), err |-> err,
     resp |-> NoResp]
Answered(cmd, a, r) == [IO("query", cmd, 0, a, "") EXCEPT !.resp = r]

\* What a delivered command does to the instrument.
DevApply(d, cmd, v) ==
    CASE cmd \in {"SOUR:VOLT", "smua.source.levelv ="} -> [d EXCEPT !.level = v]
      [] cmd \in {"OUTP ON", "smua.source.output = smua.OUTPUT_ON"} ->
            [d EXCEPT !.output = "on"]
      [] cmd \in {"OUTP OFF", "smua.source.output = smua.OUTPUT_OFF"} ->
            [d EXCEPT !.output = "off"]
      [] cmd = "smua.reset()" -> [d EXCEPT !.level = 0, !.output = "off"]
      [] OTHER -> d

NoRes == Res("", 0, 0)

\* A call state at the entry of a handler.  left: the transport failures and
\* device-reported errors that may still occur in it; fin: a running sweep
\* was ended.
Call(c, d, u, budget) ==
    [conn |-> c, dev |-> d, ui |-> u, wire |-> <<>>, exc |-> NoExc, left |-> budget,
     resp |-> NoResp, val |-> 0, pairs |-> <<>>, h |-> NoRes, fin |-> FALSE]

\* Sequencing: F runs on the outcomes of S that raised nothing.
Then(S, F(_)) == UNION { IF Raised(m) THEN {m} ELSE F(m) : m \in S }

\* except Exception: pass
Swallow(S) == { [m EXCEPT !.exc = NoExc] : m \in S }

\* try: S  finally: F  -- F always runs; the exception of S, if any, stays in
\* flight unless F raises one of its own.
Finally(S, F(_)) ==
    UNION { { IF Raised(r) THEN r ELSE [r EXCEPT !.exc = m.exc]
              : r \in F([m EXCEPT !.exc = NoExc]) } : m \in S }

Log(m, e) == [m EXCEPT !.wire = Append(@, e)]

_write(m, cmd, v) ==
    CASE m.conn.inst = "none" -> {Raise(m, "AttributeError")}
      [] m.conn.inst = "closed" ->
            {Raise(Log(m, IO("write", cmd, v, 0, TransportError)), TransportError)}
      [] OTHER ->
            {[Log(m, IO("write", cmd, v, 0, "")) EXCEPT !.dev = DevApply(m.dev, cmd, v)]}
            \cup (IF m.left > 0
                  THEN {[Raise(Log(m, IO("write", cmd, v, 0, TransportError)), TransportError)
                           EXCEPT !.left = m.left - 1]}
                  ELSE {})

\* answers: what the instrument may reply when all is well; faulty: replies
\* that report a device-side problem.
_query(m, cmd, answers, faulty) ==
    CASE m.conn.inst = "none" -> {Raise(m, "AttributeError")}
      [] m.conn.inst = "closed" ->
            {Raise(Log(m, IO("query", cmd, 0, 0, TransportError)), TransportError)}
      [] OTHER ->
            {[Log(m, Answered(cmd, 0, r)) EXCEPT !.resp = r] : r \in answers}
            \cup (IF m.left > 0
                  THEN {[Log(m, Answered(cmd, 0, r))
                           EXCEPT !.resp = r, !.left = m.left - 1] : r \in faulty}
                       \cup {[Raise(Log(m, IO("query", cmd, 0, 0, TransportError)), TransportError)
                                EXCEPT !.left = m.left - 1]}
                  ELSE {})

-----------------------------------------------------------------------------
(* KeithleyConnection *)

LevelCmd(mode) == IF mode = "tsp2600" THEN "smua.source.levelv =" ELSE "SOUR:VOLT"
OutputOnCmd(mode) ==
    IF mode = "tsp2600" THEN "smua.source.output = smua.OUTPUT_ON" ELSE "OUTP ON"
OutputOffCmd(mode) ==
    IF mode = "tsp2600" THEN "smua.source.output = smua.OUTPUT_OFF" ELSE "OUTP OFF"
LimitCmd(mode) == IF mode = "tsp2600" THEN "smua.source.limiti =" ELSE "SENS:CURR:PROT"

_require_connection(m) ==
    IF m.conn.inst = "none" THEN {Raise(m, "Not connected")} ELSE {m}

\* The value is left in m.val.
_extract_first_float(m) ==
    IF m.resp.k = "num"
    THEN [m EXCEPT !.val = m.resp.n]
    ELSE Raise(m, "Unexpected current response")

\* Replies to SYST:ERR?; which of the no-error texts an instrument gives is
\* a property of the instrument.
ScpiNoError == {Text(<<"0", ",", "N", "o">>), Text(<<"+", "0", ",", "N", "o">>)}
ScpiError == {Text(<<"-", "1", "1", "3", ",", "U", "n">>)}
\* Replies to print(errorqueue.count) and to errorqueue.next()
QueueEmpty == {Num(0)}
QueueCounts == {Num(2), Garbage}
PopEntry == {Num(-286)}
PopOdd == {Num(0), Garbage}

RECURSIVE PopErrors_all_entries(_, _, _)
\* Variant: every popped entry is reported, whatever its code.
PopErrors_all_entries(m, count, errors) ==
    IF count = 0
    THEN {IF errors # <<>>
          THEN [m EXCEPT !.exc = [Exc("Instrument error(s)") EXCEPT !.codes = errors],
                         !.resp = NoResp]
          ELSE [m EXCEPT !.resp = NoResp]}
    ELSE Then(_query(m, "errorqueue.next()", PopEntry, PopOdd),
              LAMBDA a :
                LET b == _extract_first_float(a)
                IN  IF Raised(b) THEN {b}
                    ELSE PopErrors_all_entries(b, count - 1, Append(errors, b.val)))

RECURSIVE PopErrors(_, _, _)
\* for _ in range(count): pop one entry, keep the nonzero codes
PopErrors(m, count, errors) ==
    IF count = 0
    THEN {IF errors # <<>>
          THEN [m EXCEPT !.exc = [Exc("Instrument error(s)") EXCEPT !.codes = errors],
                         !.resp = NoResp]
          ELSE [m EXCEPT !.resp = NoResp]}
    ELSE Then(_query(m, "errorqueue.next()", PopEntry, PopOdd),
              LAMBDA a :
                LET b == _extract_first_float(a)
                IN  IF Raised(b) THEN {b}
                    ELSE PopErrors(b, count - 1,
                                   IF b.val # 0 THEN Append(errors, b.val) ELSE errors))

\* Variant: the status is read and whatever it says is ignored.
_check_instrument_errors_ignored(m) ==
    IF m.conn.inst = "none" THEN {m}
    ELSE IF m.conn.mode = "tsp2600"
    THEN Then(_query(m, "print(errorqueue.count)", QueueEmpty, QueueCounts),
              LAMBDA a : {[a EXCEPT !.resp = NoResp]})
    ELSE Then(_query(m, "SYST:ERR?", {Text(m.dev.noerr)}, ScpiError),
              LAMBDA a : {[a EXCEPT !.resp = NoResp]})

_check_instrument_errors(m) ==
    IF m.conn.inst = "none" THEN {m}
    ELSE IF m.conn.mode = "tsp2600"
    THEN Then(_query(m, "print(errorqueue.count)", QueueEmpty, QueueCounts),
              LAMBDA a :
                LET b == _extract_first_float(a)
                IN  IF Raised(b) THEN {b}
                    ELSE IF Abs(b.val) <= 0 THEN {[b EXCEPT !.resp = NoResp]}
                    ELSE PopErrors(b, Abs(b.val), <<>>))
    ELSE Then(_query(m, "SYST:ERR?", {Text(m.dev.noerr)}, ScpiError),
              LAMBDA a :
                IF ~StartsWith(a.resp.s, <<"0">>) /\ ~StartsWith(a.resp.s, <<"+", "0">>)
                THEN {[Raise(a, "Instrument error") EXCEPT !.resp = NoResp]}
                ELSE {[a EXCEPT !.resp = NoResp]})

enable_output(m) ==
    Then(_require_connection(m),
         LAMBDA a :
           Then(_write(a, OutputOnCmd(a.conn.mode), 0),
                LAMBDA b :
                  _check_instrument_errors([b EXCEPT !.conn.output_enabled = TRUE])))

disable_output(m) ==
    Then(_require_connection(m),
         LAMBDA a :
           Then(_write(a, OutputOffCmd(a.conn.mode), 0),
                LAMBDA b :
                  _check_instrument_errors([b EXCEPT !.conn.output_enabled = FALSE])))

\* Variant: a failed output-off leaves the local flag as it was.
zero_output_keeps_flag(m) ==
    IF m.conn.inst # "none"
    THEN Finally(_write(m, LevelCmd(m.conn.mode), 0),
                 LAMBDA a : Swallow(disable_output(a)))
    ELSE {m}

\* Variant: a failed zero-level write ends the call.
zero_output_gives_up(m) ==
    IF m.conn.inst # "none"
    THEN Then(_write(m, LevelCmd(m.conn.mode), 0),
              LAMBDA a :
                { IF Raised(r)
                  THEN [r EXCEPT !.exc = NoExc, !.conn.output_enabled = FALSE]
                  ELSE r : r \in disable_output(a) })
    ELSE {m}

zero_output(m) ==
    IF m.conn.inst # "none"
    THEN Finally(_write(m, LevelCmd(m.conn.mode), 0),
                 LAMBDA a :
                   { IF Raised(r)
                     THEN [r EXCEPT !.exc = NoExc, !.conn.output_enabled = FALSE]
                     ELSE r : r \in disable_output(a) })
    ELSE {m}

\* Variant: the level is written before the output is enabled.
set_voltage_level_first(m, voltage) ==
    Then(_require_connection(m),
         LAMBDA a :
           IF _validate_voltage(voltage) # "none"
           THEN {Raise(a, _validate_voltage(voltage))}
           ELSE Then(_write(a, LevelCmd(a.conn.mode), voltage.n),
                     LAMBDA b :
                       Then(enable_output(b),
                            LAMBDA c : _check_instrument_errors(c))))

\* Variant: the output is enabled before the voltage is validated.
set_voltage_validates_late(m, voltage) ==
    Then(_require_connection(m),
         LAMBDA a :
           Then(enable_output(a),
                LAMBDA b :
                  IF _validate_voltage(voltage) # "none"
                  THEN {Raise(b, _validate_voltage(voltage))}
                  ELSE Then(_write(b, LevelCmd(b.conn.mode), voltage.n),
                            LAMBDA c : _check_instrument_errors(c))))

set_voltage(m, voltage) ==
    Then(_require_connection(m),
         LAMBDA a :
           IF _validate_voltage(voltage) # "none"
           THEN {Raise(a, _validate_voltage(voltage))}
           ELSE Then(enable_output(a),
                     LAMBDA b :
                       Then(_write(b, LevelCmd(b.conn.mode), voltage.n),
                            LAMBDA c : _check_instrument_errors(c))))

set_current_compliance_ua(m, compliance_ua) ==
    Then(_require_connection(m),
         LAMBDA a :
           IF _validate_compliance(compliance_ua) # "none"
           THEN {Raise(a, _validate_compliance(compliance_ua))}
           ELSE Then(_write(a, LimitCmd(a.conn.mode), compliance_ua.n),
                     LAMBDA b : _check_instrument_errors(b)))

\* Replies to a current measurement, in units of 1e36 A.
Readings == {Num(0)}
BadReadings == {Num(OVERFLOW), Num(-(OVERFLOW + 1)), Garbage}

\* Variant: the sentinel itself is returned as a reading.
measure_current_beyond_only(m) ==
    Then(_require_connection(m),
         LAMBDA a :
           Then(_query(a, IF a.conn.mode = "tsp2600" THEN "print(smua.measure.i())"
                                                      ELSE "MEAS:CURR?",
                       Readings, BadReadings),
                LAMBDA b :
                  LET c == _extract_first_float(b)
                  IN  IF Raised(c) THEN {[c EXCEPT !.resp = NoResp]}
                      ELSE IF Abs(c.val) > OVERFLOW
                      THEN {[Raise(c, "Current reading is overrange/compliance")
                               EXCEPT !.resp = NoResp, !.val = 0]}
                      ELSE {[c EXCEPT !.resp = NoResp]}))

measure_current(m) ==
    Then(_require_connection(m),
         LAMBDA a :
           Then(_query(a, IF a.conn.mode = "tsp2600" THEN "print(smua.measure.i())"
                                                      ELSE "MEAS:CURR?",
                       Readings, BadReadings),
                LAMBDA b :
                  LET c == _extract_first_float(b)
                  IN  IF Raised(c) THEN {[c EXCEPT !.resp = NoResp]}
                      ELSE IF Abs(c.val) >= OVERFLOW
                      THEN {[Raise(c, "Current reading is overrange/compliance")
                               EXCEPT !.resp = NoResp, !.val = 0]}
                      ELSE {[c EXCEPT !.resp = NoResp]}))

\* Variant: no lower limit on the estimate.
\* (npoints * delay_us * 8) \div 1000, the product taken in two parts to stay
\* within the machine integers
ProductMs(npoints, delay_us) ==
    npoints * 8 * (delay_us \div 1000) + (npoints * 8 * (delay_us % 1000)) \div 1000

EstimatedMs_no_floor(npoints, delay_us) ==
    Min(MAX_FAST_TIMEOUT, ProductMs(npoints, Max(delay_us, 1)))

\* delay_s is given in microseconds; the result is in milliseconds.
EstimatedMs(npoints, delay_us) ==
    Max(MIN_FAST_TIMEOUT, Min(MAX_FAST_TIMEOUT, ProductMs(npoints, Max(delay_us, 1))))

\* The levels the instrument-resident loop may have left behind when the
\* script query did not come back: it never ran, or it stopped at some point.
ScriptLevels(d, voltages) ==
    {d} \cup {[d EXCEPT !.level = voltages[i].n] : i \in 1..Len(voltages)}

\* The script query: delivered, the loop runs over all points and prints its
\* result; it may print less (or nothing) when the script stops early.
ScriptQuery(m, voltages) ==
    LET n == Len(voltages)
        ran == [m EXCEPT !.dev.level = voltages[n].n]
        lost(k) == Log(k, IO("query", "script", k.conn.timeout, n, TransportError))
        got(k, r) == [Log(k, Answered("script", n, r)) EXCEPT
                        !.wire[Len(k.wire) + 1].v = k.conn.timeout, !.resp = r]
    IN  CASE m.conn.inst = "closed" -> {Raise(lost(m), TransportError)}
          [] OTHER ->
              {got(ran, Pairs(n))}
              \cup (IF m.left > 0
                    THEN {[got(ran, r) EXCEPT !.left = m.left - 1]
                            : r \in {Pairs(k) : k \in 0..(n - 1)} \cup {Garbage}}
                         \cup {[Raise(lost(m), TransportError)
                                  EXCEPT !.left = m.left - 1, !.dev = d]
                                 : d \in ScriptLevels(m.dev, voltages)}
                    ELSE {})

SetTimeout(m, t) ==
    [Log(m, IO("timeout", "set", t, 0, "")) EXCEPT !.conn.timeout = t]

\* Variant: the timeout is left as the sweep set it.
RestoreTimeout_skipped(m, original_timeout) == {m}

\* finally: self.inst.timeout = original_timeout
RestoreTimeout(m, original_timeout) == {SetTimeout(m, original_timeout)}

\* Variant: the dialect is not looked at.
run_tsp_sweep_any_dialect(m, voltages, delay_s) ==
    Then(_require_connection(m),
         LAMBDA a :
           IF voltages = <<>> THEN {a}
           ELSE IF ~IsNumber(delay_s) \/ ~IsFinite(delay_s) \/ delay_s.n < 0
           THEN {Raise(a, "Delay must be a non-negative finite number")}
           ELSE IF \E i \in 1..Len(voltages) : _validate_voltage(voltages[i]) # "none"
           THEN {Raise(a, _validate_voltage(
                            voltages[CHOOSE i \in 1..Len(voltages) :
                                       /\ _validate_voltage(voltages[i]) # "none"
                                       /\ \A j \in 1..(i - 1) :
                                             _validate_voltage(voltages[j]) = "none"]))}
           ELSE IF a.conn.inst = "closed" THEN {Raise(a, "InvalidSession")}
           ELSE LET original_timeout == a.conn.timeout
                    estimated_ms == EstimatedMs(Len(voltages), delay_s.n)
                IN  Finally(
                      Then(enable_output(SetTimeout(a, Max(original_timeout, estimated_ms))),
                           LAMBDA b :
                             Then(ScriptQuery(b, voltages),
                                  LAMBDA c :
                                    IF c.resp.k # "pairs" \/ c.resp.n = 0
                                    THEN {[Raise(c, "Instrument fast sweep returned no parseable data")
                                             EXCEPT !.resp = NoResp]}
                                    ELSE _check_instrument_errors(
                                           [c EXCEPT !.resp = NoResp,
                                                     !.pairs = [i \in 1..c.resp.n |->
                                                                  voltages[i].n]]))),
                      LAMBDA f : RestoreTimeout(f, original_timeout)))

\* Variant: a reply without pairs gives an empty result.
run_tsp_sweep_returns_empty(m, voltages, delay_s) ==
    Then(_require_connection(m),
         LAMBDA a :
           IF a.conn.mode # "tsp2600"
           THEN {Raise(a, "Fast instrument sweep is available only for Keithley 2600 TSP mode")}
           ELSE IF voltages = <<>> THEN {a}
           ELSE IF ~IsNumber(delay_s) \/ ~IsFinite(delay_s) \/ delay_s.n < 0
           THEN {Raise(a, "Delay must be a non-negative finite number")}
           ELSE IF \E i \in 1..Len(voltages) : _validate_voltage(voltages[i]) # "none"
           THEN {Raise(a, _validate_voltage(
                            voltages[CHOOSE i \in 1..Len(voltages) :
                                       /\ _validate_voltage(voltages[i]) # "none"
                                       /\ \A j \in 1..(i - 1) :
                                             _validate_voltage(voltages[j]) = "none"]))}
           ELSE IF a.conn.inst = "closed" THEN {Raise(a, "InvalidSession")}
           ELSE LET original_timeout == a.conn.timeout
                    estimated_ms == EstimatedMs(Len(voltages), delay_s.n)
                IN  Finally(
                      Then(enable_output(SetTimeout(a, Max(original_timeout, estimated_ms))),
                           LAMBDA b :
                             Then(ScriptQuery(b, voltages),
                                  LAMBDA c :
                                    IF c.resp.k # "pairs" \/ c.resp.n = 0
                                    THEN {[c EXCEPT !.resp = NoResp, !.pairs = <<>>]}
                                    ELSE _check_instrument_errors(
                                           [c EXCEPT !.resp = NoResp,
                                                     !.pairs = [i \in 1..c.resp.n |->
                                                                  voltages[i].n]]))),
                      LAMBDA f : RestoreTimeout(f, original_timeout)))

run_tsp_sweep(m, voltages, delay_s) ==
    Then(_require_connection(m),
         LAMBDA a :
           IF a.conn.mode # "tsp2600"
           THEN {Raise(a, "Fast instrument sweep is available only for Keithley 2600 TSP mode")}
           ELSE IF voltages = <<>> THEN {a}
           ELSE IF ~IsNumber(delay_s) \/ ~IsFinite(delay_s) \/ delay_s.n < 0
           THEN {Raise(a, "Delay must be a non-negative finite number")}
           ELSE IF \E i \in 1..Len(voltages) : _validate_voltage(voltages[i]) # "none"
           THEN {Raise(a, _validate_voltage(
                            voltages[CHOOSE i \in 1..Len(voltages) :
                                       /\ _validate_voltage(voltages[i]) # "none"
                                       /\ \A j \in 1..(i - 1) :
                                             _validate_voltage(voltages[j]) = "none"]))}
           ELSE IF a.conn.inst = "closed" THEN {Raise(a, "InvalidSession")}
           ELSE LET original_timeout == a.conn.timeout
                    estimated_ms == EstimatedMs(Len(voltages), delay_s.n)
                IN  Finally(
                      Then(enable_output(SetTimeout(a, Max(original_timeout, estimated_ms))),
                           LAMBDA b :
                             Then(ScriptQuery(b, voltages),
                                  LAMBDA c :
                                    IF c.resp.k # "pairs" \/ c.resp.n = 0
                                    THEN {[Raise(c, "Instrument fast sweep returned no parseable data")
                                             EXCEPT !.resp = NoResp]}
                                    ELSE _check_instrument_errors(
                                           [c EXCEPT !.resp = NoResp,
                                                     !.pairs = [i \in 1..c.resp.n |->
                                                                  voltages[i].n]]))),
                      LAMBDA f : RestoreTimeout(f, original_timeout)))

\* str(e) of the errors rm.open_resource may raise
OpenErrors == {"VI_ERROR_RSRC_NFOUND (0xBFFF0011)",
               "Insufficient location information",
               "VI_ERROR_RSRC_BUSY (0xBFFF0072)"}

\* Variant: every open error counts as 'not present'.
_is_resource_not_present_error_any(error) == TRUE

_is_resource_not_present_error(error) ==
    error \in {"VI_ERROR_RSRC_NFOUND (0xBFFF0011)", "Insufficient location information"}

\* re.match(r"^GPIB(\d+)::(\d+)::INSTR$", resource_name, re.IGNORECASE)
GpibMatch(resource_name) == resource_name.kind \in {"GPIB", "gpib"}

\* Variant: no sibling bus.
Candidates_single(resource_name) == <<resource_name>>

Candidates(resource_name) ==
    IF GpibMatch(resource_name)
    THEN IF resource_name.bus = 0
         THEN <<resource_name, Res("GPIB", 1, resource_name.addr)>>
         ELSE IF resource_name.bus = 1
         THEN <<resource_name, Res("GPIB", 0, resource_name.addr)>>
         ELSE <<resource_name>>
    ELSE <<resource_name>>

\* self.rm.open_resource(candidate): the handle (left in m.h), or an error
\* (left in m.exc.cause).
open_resource(m, candidate) ==
    LET att(err) == Log(m, IO("open", candidate.kind, candidate.bus, candidate.addr, err))
    IN  {[att("") EXCEPT !.h = candidate]}
        \cup (IF m.left > 0
              THEN {[att(e) EXCEPT !.left = m.left - 1,
                                       !.exc = [Exc("VisaIOError") EXCEPT !.cause = e]]
                      : e \in OpenErrors}
              ELSE {})

RECURSIVE OpenLoop(_, _, _, _)
\* for candidate in candidates[i..]: errors holds the (candidate, e) met so far
OpenLoop(m, candidates, i, errors) ==
    IF i > Len(candidates)
    THEN {[m EXCEPT !.exc = [msg |-> "Could not open GPIB resource",
                            tried |-> [k \in 1..Len(errors) |-> errors[k][1]],
                            cause |-> IF errors # <<>> THEN errors[Len(errors)][2]
                                                     ELSE "Unknown error",
                            codes |-> <<>>]]}
    ELSE UNION {
           IF ~Raised(r) THEN {r}
           ELSE IF ~_is_resource_not_present_error(r.exc.cause)
           THEN {[r EXCEPT !.exc = [msg |-> "Error opening resource",
                                    tried |-> <<candidates[i]>>,
                                    cause |-> r.exc.cause,
                                    codes |-> <<>>]]}
           ELSE OpenLoop([r EXCEPT !.exc = NoExc], candidates, i + 1,
                         Append(errors, <<candidates[i], r.exc.cause>>))
           : r \in open_resource(m, candidates[i]) }

_open_resource_with_gpib_fallback(m, resource_name) ==
    OpenLoop(m, Candidates(resource_name), 1, <<>>)

\* self.inst.close(): the session is released unless the call fails; closing
\* a session that is already closed does nothing.
CloseHandle(m) ==
    CASE m.conn.inst = "closed" -> {Log(m, IO("close", "inst", 0, 0, ""))}
      [] OTHER ->
            {[Log(m, IO("close", "inst", 0, 0, "")) EXCEPT !.conn.inst = "closed"]}
            \cup (IF m.left > 0
                  THEN {[Raise(Log(m, IO("close", "inst", 0, 0, TransportError)), TransportError)
                           EXCEPT !.left = m.left - 1]}
                  ELSE {})

_safe_close_instrument(m) ==
    IF m.conn.inst # "none"
    THEN {[r EXCEPT !.exc = NoExc, !.conn.inst = "none", !.conn.output_enabled = FALSE]
            : r \in CloseHandle(m)}
    ELSE {m}

\* Identification strings
IDN_2602 == <<"K","e","i","t","h","l","e","y"," ","2","6","0","2","A">>
IDN_TEK == <<"T","e","k","t","r","o","n","i","x"," ","2","4","5","0">>
IDN_OTHER == <<"A","g","i","l","e","n","t"," ","3","4","4","0","1">>
\* The instruments that may sit on the bus: identification string, the
\* value of localnode.model and the no-error text
Instruments == {<<IDN_2602, <<"2","6","0","2","A">>, <<"0", ",", "N", "o">>>>,
                <<IDN_TEK, <<"2","4","5","0">>, <<"+", "0", ",", "N", "o">>>>,
                <<IDN_OTHER, <<"3","4","4","0","1">>, <<"0", ",", "N", "o">>>>}
UnknownInstrument ==
    <<"U","n","k","n","o","w","n"," ","i","n","s","t","r","u","m","e","n","t">>

\* The identity is left in m.resp.s; the call never raises.
_query_id(m) ==
    UNION { IF ~Raised(r) THEN {r}
            ELSE { IF ~Raised(q)
                   THEN [q EXCEPT !.resp = Text(<<"K","E","I","T","H","L","E","Y",",">>
                                                \o q.resp.s \o <<",","T","S","P">>)]
                   ELSE [q EXCEPT !.exc = NoExc, !.resp = Text(UnknownInstrument)]
                   : q \in _query([r EXCEPT !.exc = NoExc], "print(localnode.model)",
                                  {Text(m.dev.model)}, {}) }
            : r \in _query(m, "*IDN?", {Text(m.dev.idn)}, {}) }

\* Variant: any identity is accepted.
_validate_instrument_identity_lenient(m) == {m}

_validate_instrument_identity(m) ==
    LET id_upper == Upper(m.conn.idn)
    IN  IF ~Contains(id_upper, <<"K","E","I","T","H","L","E","Y">>)
           /\ ~Contains(id_upper, <<"T","E","K","T","R","O","N","I","X">>)
        THEN {Raise(m, "Connected device does not look like a supported Keithley SMU")}
        ELSE {m}

RECURSIVE WriteAll(_, _)
\* consecutive self._write(cmd) calls
WriteAll(m, cmds) ==
    IF cmds = <<>> THEN {m}
    ELSE Then(_write(m, cmds[1][1], cmds[1][2]), LAMBDA a : WriteAll(a, Tail(cmds)))

_setup_scpi_defaults(m) ==
    Then(WriteAll(m, << <<"*CLS", 0>>, <<"OUTP OFF", 0>>, <<"SOUR:VOLT", 0>>,
                        <<"SENS:CURR:RANG:AUTO ON", 0>>, <<"SENS:CURR:PROT", 1>> >>),
         LAMBDA a : _check_instrument_errors(a))

_setup_2600_defaults(m) ==
    Then(WriteAll(m, << <<"smua.reset()", 0>>,
                        <<"smua.source.func = smua.OUTPUT_DCVOLTS", 0>>,
                        <<"smua.source.levelv =", 0>>,
                        <<"smua.source.limiti =", 1>>,
                        <<"smua.measure.autorangei = smua.AUTORANGE_ON", 0>>,
                        <<"smua.source.output = smua.OUTPUT_OFF", 0>> >>),
         LAMBDA a : _check_instrument_errors(a))

initialize(m) ==
    IF ~m.conn.rm
    THEN {[m EXCEPT !.conn.rm = TRUE]}
         \cup (IF m.left > 0
               THEN {[Raise(m, "Failed to initialize VISA ResourceManager")
                        EXCEPT !.left = m.left - 1]}
               ELSE {})
    ELSE {m}

\* connect(), lines 62-76: identity, dialect, defaults; unwinds on failure
ConnectSetup(m) ==
    UNION { IF Raised(r) THEN Finally({r}, LAMBDA f : _safe_close_instrument(f))
            ELSE {r}
            : r \in Then(_query_id(m),
                         LAMBDA a :
                           Then(_validate_instrument_identity(
                                  [a EXCEPT !.conn.idn = a.resp.s, !.resp = NoResp]),
                                LAMBDA b :
                                  LET c == [b EXCEPT !.conn.mode =
                                              IF Contains(Upper(b.conn.idn), <<"2","6","0","2">>)
                                              THEN "tsp2600" ELSE "scpi"]
                                  IN  Then(IF c.conn.mode = "tsp2600"
                                           THEN _setup_2600_defaults(c)
                                           ELSE _setup_scpi_defaults(c),
                                           LAMBDA e :
                                             {[e EXCEPT !.conn.output_enabled = FALSE]}))) }

connect(m, resource_name) ==
    Then(initialize(m),
         LAMBDA a :
           Then(IF a.conn.inst # "none"
                THEN UNION { Swallow(CloseHandle(z)) : z \in Swallow(zero_output(a)) }
                ELSE {a},
                LAMBDA b :
                  Then(_open_resource_with_gpib_fallback(b, resource_name),
                       LAMBDA c :
                         ConnectSetup([c EXCEPT !.conn.inst = "open",
                                                !.conn.last_resource = c.h,
                                                !.conn.timeout = BASE_TIMEOUT,
                                                !.h = NoRes]))))

\* Variant: a handle whose release failed is kept.
close_keeps_failed_handle(m) ==
    UNION { LET b == IF a.conn.inst # "none"
                     THEN {[r EXCEPT !.exc = NoExc,
                                     !.conn.inst = IF Raised(r) THEN @ ELSE "none"]
                             : r \in CloseHandle(a)}
                     ELSE {a}
            IN  { [r EXCEPT !.conn.rm = FALSE] : r \in b }
            : a \in Swallow(zero_output(m)) }

close(m) ==
    UNION { LET b == IF a.conn.inst # "none"
                     THEN {[r EXCEPT !.conn.inst = "none"] : r \in Swallow(CloseHandle(a))}
                     ELSE {a}
            IN  { [r EXCEPT !.conn.rm = FALSE] : r \in b }
            : a \in Swallow(zero_output(m)) }

-----------------------------------------------------------------------------
(* KeithleyUI: the sweep executor *)

\* ui.sweep_after_id: the callback sweep_after_id names is pending;
\* ui.orphans: pending step callbacks that no id names any more;
\* ui.rows: the voltages of the logged measurements.

\* Variant: the sweep is marked ended but the output is left alone.
_finish_sweep_keeps_output(m) ==
    {[m EXCEPT !.ui.sweep_running = FALSE,
               !.ui.sweep_after_id = FALSE,
               !.ui.orphans = @ + (IF m.ui.sweep_after_id THEN 1 ELSE 0),
               !.fin = m.fin \/ m.ui.sweep_running]}

_finish_sweep(m) ==
    LET a == [m EXCEPT !.ui.sweep_running = FALSE,
                       !.ui.sweep_after_id = FALSE,
                       !.ui.orphans = @ + (IF m.ui.sweep_after_id THEN 1 ELSE 0),
                       !.fin = m.fin \/ m.ui.sweep_running]
    IN  IF a.ui.connected THEN Swallow(zero_output(a)) ELSE {a}

\* Variant: an error of the teardown is the one shown.
FinishAndShow_teardown_error_wins(m) ==
    LET a == [m EXCEPT !.exc = NoExc,
                       !.ui.sweep_running = FALSE,
                       !.ui.sweep_after_id = FALSE,
                       !.ui.orphans = @ + (IF m.ui.sweep_after_id THEN 1 ELSE 0),
                       !.fin = m.fin \/ m.ui.sweep_running]
    IN  { IF Raised(r) THEN r ELSE [r EXCEPT !.exc = m.exc]
          : r \in IF a.ui.connected THEN zero_output(a) ELSE {a} }

\* except Exception as e: self._finish_sweep(); messagebox.showerror(str(e))
FinishAndShow(m) ==
    {[r EXCEPT !.exc = m.exc] : r \in _finish_sweep([m EXCEPT !.exc = NoExc])}

\* Variant: the cancellation flag is not looked at.
_run_next_sweep_step_ignores_stop(m) ==
    IF m.ui.sweep_index >= Len(m.ui.sweep_values)
    THEN _finish_sweep(m)
    ELSE LET voltage == m.ui.sweep_values[m.ui.sweep_index + 1]
         IN  UNION { IF Raised(r) THEN FinishAndShow(r)
                     ELSE {[r EXCEPT !.ui.rows = Append(@, voltage.n),
                                     !.ui.sweep_index = @ + 1,
                                     !.ui.orphans = @ + (IF r.ui.sweep_after_id THEN 1 ELSE 0),
                                     !.ui.sweep_after_id = TRUE,
                                     !.val = 0]}
                     : r \in Then(set_voltage(m, voltage),
                                  LAMBDA a : measure_current(a)) }

\* Variant: the points are taken from the end of the plan.
_run_next_sweep_step_backwards(m) ==
    IF m.ui.stop_flag \/ m.ui.sweep_index >= Len(m.ui.sweep_values)
    THEN _finish_sweep(m)
    ELSE LET voltage == m.ui.sweep_values[Len(m.ui.sweep_values) - m.ui.sweep_index]
         IN  UNION { IF Raised(r) THEN FinishAndShow(r)
                     ELSE {[r EXCEPT !.ui.rows = Append(@, voltage.n),
                                     !.ui.sweep_index = @ + 1,
                                     !.ui.orphans = @ + (IF r.ui.sweep_after_id THEN 1 ELSE 0),
                                     !.ui.sweep_after_id = TRUE,
                                     !.val = 0]}
                     : r \in Then(set_voltage(m, voltage),
                                  LAMBDA a : measure_current(a)) }

_run_next_sweep_step(m) ==
    IF m.ui.stop_flag \/ m.ui.sweep_index >= Len(m.ui.sweep_values)
    THEN _finish_sweep(m)
    ELSE LET voltage == m.ui.sweep_values[m.ui.sweep_index + 1]
         IN  UNION { IF Raised(r) THEN FinishAndShow(r)
                     ELSE {[r EXCEPT !.ui.rows = Append(@, voltage.n),
                                     !.ui.sweep_index = @ + 1,
                                     !.ui.orphans = @ + (IF r.ui.sweep_after_id THEN 1 ELSE 0),
                                     !.ui.sweep_after_id = TRUE,
                                     !.val = 0]}
                     : r \in Then(set_voltage(m, voltage),
                                  LAMBDA a : measure_current(a)) }

sweep_example(m, voltages) ==
    LET a == [m EXCEPT !.ui.stop_flag = FALSE, !.ui.sweep_running = TRUE,
                       !.ui.sweep_values = voltages, !.ui.sweep_index = 0]
    IN  UNION { IF Raised(r) THEN FinishAndShow(r) ELSE _run_next_sweep_step(r)
                : r \in zero_output(a) }

_run_fast_instrument_sweep(m, voltages, delay_s) ==
    LET a == [m EXCEPT !.ui.stop_flag = FALSE, !.ui.sweep_running = TRUE,
                       !.ui.sweep_values = voltages, !.ui.sweep_index = 0]
    IN  UNION { IF Raised(r) THEN FinishAndShow(r)
                ELSE _finish_sweep([r EXCEPT !.ui.rows = @ \o r.pairs,
                                             !.ui.sweep_index =
                                                IF r.pairs = <<>> THEN 0 ELSE Len(r.pairs),
                                             !.pairs = <<>>])
                : r \in run_tsp_sweep(a, voltages, delay_s) }

_start_sweep_run(m, values, delay, sweep_exec) ==
    LET a == [m EXCEPT !.ui.rows = <<>>]
    IN  IF sweep_exec = "Fast TSP (instrument timing)"
        THEN IF a.conn.mode # "tsp2600"
             THEN {Raise(a, "Fast TSP execution is available only when connected to Keithley 2600 in TSP mode.")}
             ELSE _run_fast_instrument_sweep(a, values, delay)
        ELSE sweep_example(a, values)

stop(m) ==
    UNION { Swallow(zero_output(r))
            : r \in _finish_sweep([m EXCEPT !.ui.stop_flag = TRUE,
                                            !.ui.sweep_after_id = FALSE]) }

on_close(m) ==
    UNION { {[c EXCEPT !.ui.destroyed = TRUE, !.ui.orphans = 0] : c \in close(r)}
            : r \in stop(m) }

ui_connect(m, resource) ==
    { IF Raised(r) THEN [r EXCEPT !.ui.connected = FALSE]
      ELSE [r EXCEPT !.ui.connected = TRUE]
      : r \in connect(m, resource) }

ui_set_voltage(m, voltage) ==
    IF Abs(voltage.n) > MAX_ABS_VOLTAGE /\ voltage.t # "nan"
    THEN {Raise(m, "Voltage out of instrument-safe UI range")}
    ELSE set_voltage(m, voltage)

-----------------------------------------------------------------------------
(* Floating point.  A float is an integer number of units with a mantissa  *)
(* of MantissaBits bits: below 2^MantissaBits units every integer is a      *)
(* float, from there on every second one, then every fourth, and so on.     *)
(* One decimal digit of the twelfth place is DecimalQuantum units, several  *)
(* times the spacing of the floats in use, so that one rounding error never *)
(* shows in a value rounded to twelve places and a sum of them can.         *)

MantissaBits == 16
DecimalQuantum == 25

Sign(x) == IF x > 0 THEN 1 ELSE IF x < 0 THEN -1 ELSE 0

RECURSIVE UlpFrom(_, _)
UlpFrom(a, u) == IF a < (2 ^ MantissaBits) * u THEN u ELSE UlpFrom(a, 2 * u)
\* the spacing of the floats around x
Ulp(x) == UlpFrom(Abs(x), 1)

\* the multiple of u nearest to x, the even one of two equally near
RoundTo(x, u) ==
    LET a == Abs(x)
        q == a \div u
        r == a % u
        k == IF 2 * r < u THEN q ELSE IF 2 * r > u THEN q + 1 ELSE q + (q % 2)
    IN  IF x < 0 THEN -(k * u) ELSE k * u

\* the float nearest to x: the result of an arithmetic operation, of float(text)
Fl(x) == RoundTo(x, Ulp(x))

\* round(x, 12)
Round12(x) == Fl(RoundTo(x, DecimalQuantum))

\* round(a / b) for b > 0
RoundDiv(a, b) == RoundTo(a, b) \div b

-----------------------------------------------------------------------------
(* KeithleyUI: the sweep generators.  A generator call ends in a record    *)
(* [values, cycle_ids, returns]; returns is FALSE when the call never       *)
(* comes back.                                                              *)

Returned(values, cycle_ids) == [values |-> values, cycle_ids |-> cycle_ids, returns |-> TRUE]
NoReturn == [values |-> <<>>, cycle_ids |-> <<>>, returns |-> FALSE]
Tail1(s) == IF s = <<>> THEN <<>> ELSE Tail(s)
Repeat(x, n) == [i \in 1..n |-> x]

RECURSIVE SweepLoop(_, _, _, _)
\* while value <= stop + abs(step) / 1000 (step > 0), value >= stop - ... (else):
\* an iteration that leaves value as it was is repeated for ever
SweepLoop(value, stop_v, step, values) ==
    LET tol == Fl(RoundDiv(Abs(step), 1000))
        go == IF step > 0 THEN value <= Fl(stop_v + tol) ELSE value >= Fl(stop_v - tol)
    IN  IF ~go THEN Returned(values, <<>>)
        ELSE IF Fl(value + step) = value THEN NoReturn
        ELSE SweepLoop(Fl(value + step), stop_v, step, Append(values, Round12(value)))

_build_sweep_values(start, stop_v, step) ==
    \* (stop - start) * step < 0, by the signs of the factors
    IF Sign(Fl(stop_v - start)) * Sign(step) < 0 THEN Returned(<<>>, <<>>)
    ELSE SweepLoop(start, stop_v, step, <<>>)

RECURSIVE AppendCycles(_, _, _, _, _)
\* for cycle_idx in range(cycle_idx, cycles + 1): extend by more, tagged cycle_idx
AppendCycles(values, cycle_ids, more, cycle_idx, cycles) ==
    IF cycle_idx > cycles THEN Returned(values, cycle_ids)
    ELSE AppendCycles(values \o more, cycle_ids \o Repeat(cycle_idx, Len(more)),
                      more, cycle_idx + 1, cycles)

_build_simple_cycle_values_with_cycles(peak_v, step, cycles) ==
    LET step_mag == Abs(step)
        peak == Abs(peak_v)
        seg1 == _build_sweep_values(0, peak, step_mag)
        seg2 == _build_sweep_values(peak, 0, -step_mag)
        seg3 == _build_sweep_values(0, -peak, -step_mag)
        seg4 == _build_sweep_values(-peak, 0, step_mag)
        single == seg1.values \o Tail1(seg2.values) \o Tail1(seg3.values)
                  \o Tail1(seg4.values)
    IN  IF step_mag = 0 \/ cycles < 1 THEN Returned(<<>>, <<>>)
        ELSE IF peak = 0 THEN Returned(<<0>>, <<1>>)
        ELSE IF ~(seg1.returns /\ seg2.returns /\ seg3.returns /\ seg4.returns)
        THEN NoReturn
        ELSE IF <<>> \in {seg1.values, seg2.values, seg3.values, seg4.values}
        THEN Returned(<<>>, <<>>)
        ELSE AppendCycles(single, Repeat(1, Len(single)), Tail1(single), 2, cycles)

\* Variant: the quotient is cut off instead of rounded.
_build_hold_values_truncating(voltage, hold_time_s, sample_interval_s) ==
    IF hold_time_s <= 0 \/ sample_interval_s <= 0 THEN <<>>
    ELSE Repeat(Round12(voltage), Max(1, hold_time_s \div sample_interval_s))

\* The times are whole numbers of a time unit.
_build_hold_values(voltage, hold_time_s, sample_interval_s) ==
    IF hold_time_s <= 0 \/ sample_interval_s <= 0 THEN <<>>
    ELSE Repeat(Round12(voltage), Max(1, RoundDiv(hold_time_s, sample_interval_s)))

_build_wrer_values_with_cycles(write_v, write_t, read_v, read_t, erase_v, erase_t, sample_interval_s, cycles) ==
    LET single == _build_hold_values(write_v, write_t, sample_interval_s)
                  \o _build_hold_values(read_v, read_t, sample_interval_s)
                  \o _build_hold_values(erase_v, erase_t, sample_interval_s)
                  \o _build_hold_values(read_v, read_t, sample_interval_s)
    IN  IF cycles < 1 THEN Returned(<<>>, <<>>)
        ELSE IF single = <<>> THEN Returned(<<>>, <<>>)
        ELSE AppendCycles(single, Repeat(1, Len(single)), single, 2, cycles)

\* seg of the segment (a, b)
SegmentValues(a, b, step_mag) ==
    IF a = b THEN Returned(<<Round12(a)>>, <<>>)
    ELSE _build_sweep_values(a, b, IF b > a THEN step_mag ELSE -step_mag)

RECURSIVE SegmentLoop(_, _, _, _)
\* for idx, (a, b) in enumerate(custom_segments[idx..]): single holds the
\* points so far; <<>> stands for the early return of the empty result
SegmentLoop(custom_segments, idx, step_mag, single) ==
    IF idx > Len(custom_segments) THEN Returned(single, <<>>)
    ELSE LET seg == SegmentValues(custom_segments[idx][1], custom_segments[idx][2],
                                  step_mag)
         IN  IF ~seg.returns THEN NoReturn
             ELSE IF seg.values = <<>> THEN Returned(<<>>, <<>>)
             ELSE SegmentLoop(custom_segments, idx + 1, step_mag,
                              single \o (IF idx = 1 THEN seg.values
                                         ELSE Tail(seg.values)))

\* Variant: every segment is appended whole.
_build_custom_sequence_values_with_cycles_whole(custom_segments, step, cycles) ==
    LET step_mag == Abs(step)
        segs == [i \in 1..Len(custom_segments) |->
                   SegmentValues(custom_segments[i][1], custom_segments[i][2],
                                 step_mag).values]
        single == IF Len(segs) = 1 THEN segs[1] ELSE segs[1] \o segs[2]
    IN  IF step_mag = 0 \/ cycles < 1 \/ custom_segments = <<>>
        THEN Returned(<<>>, <<>>)
        ELSE AppendCycles(single, Repeat(1, Len(single)), Tail1(single), 2, cycles)

_build_custom_sequence_values_with_cycles(custom_segments, step, cycles) ==
    LET step_mag == Abs(step)
        single == SegmentLoop(custom_segments, 1, step_mag, <<>>)
    IN  IF step_mag = 0 \/ cycles < 1 \/ custom_segments = <<>>
        THEN Returned(<<>>, <<>>)
        ELSE IF ~single.returns THEN NoReturn
        ELSE IF single.values = <<>> THEN Returned(<<>>, <<>>)
        ELSE AppendCycles(single.values, Repeat(1, Len(single.values)),
                          Tail1(single.values), 2, cycles)

-----------------------------------------------------------------------------
(* Inputs *)

Resources == {Res("GPIB", 0, 5), Res("GPIB", 1, 5), Res("GPIB", 2, 5), Res("ASRL", 1, 0)}
Voltages == {Fin(0), Fin(5), Fin(MAX_ABS_VOLTAGE + 1), NaN}
Compliances == {Fin(100), Fin(0), Fin(MAX_COMPLIANCE_UA + 1), PosInf}
PlanVoltages == {Fin(5), Fin(MAX_ABS_VOLTAGE + 1)}
Plans == UNION {[1..n -> PlanVoltages] : n \in 0..MaxPoints}
\* The point lists the panel hands to the executor: non-empty, each entry
\* within range or not a number (the range checks let NaN through); here the
\* lists 5, 6, ... of the longest length, the first entry at most being NaN.
PanelPlans ==
    {[i \in 1..MaxPoints |-> IF i = 1 /\ nan THEN NaN ELSE Fin(4 + i)]
       : nan \in BOOLEAN}
PanelVoltages == {Fin(0), Fin(5), NaN}
PanelDelays == {Fin(10000)}
PanelResources == {Res("ASRL", 1, 0)}
PanelInstruments == Instruments
ExecModes == {"Step-by-step", "Fast TSP (instrument timing)"}
\* in microseconds: none, 20.0001 s (the estimate is 160000.8 ms for one point
\* and beyond the upper limit for two), 400 s, negative, not a number
Delays == {Fin(0), Fin(20000100), Fin(400000000), Fin(-1), NaN}

-----------------------------------------------------------------------------
(* State *)

\* wire and ret describe the handler that ran last: the transport operations
\* it issued and how it returned.  They are cleared when control is back in
\* the event loop, before the next handler is dispatched.
\* gen describes the generator call made last.
IdleGen == [op |-> "idle", args |-> <<>>, values |-> <<>>, cycle_ids |-> <<>>,
            returns |-> TRUE]

IdleRet ==
    [op |-> "idle", exc |-> NoExc, arg |-> Fin(0), res |-> NoRes, val |-> 0,
     pairs |-> <<>>, points |-> <<>>, conn0 |-> "none", t0 |-> 0, oe0 |-> FALSE,
     rm0 |-> FALSE, fin |-> FALSE]

Init ==
    /\ conn = [rm |-> FALSE, inst |-> "none", idn |-> <<>>, mode |-> "scpi",
               last_resource |-> NoRes, output_enabled |-> FALSE, timeout |-> 0]
    /\ \E i \in Instruments :
         dev = [level |-> 0, output |-> "off", idn |-> i[1], model |-> i[2],
                noerr |-> i[3]]
    /\ ui = [connected |-> FALSE, sweep_running |-> FALSE, stop_flag |-> FALSE,
             sweep_values |-> <<>>, sweep_index |-> 0, sweep_after_id |-> FALSE,
             orphans |-> 0, rows |-> <<>>, destroyed |-> FALSE]
    /\ wire = <<>>
    /\ ret = IdleRet
    /\ gen = IdleGen

\* The outcome r of a call op(arg) on the session becomes the next state.
Return(op, r, arg, res, points) ==
    /\ conn' = r.conn
    /\ dev' = r.dev
    /\ wire' = r.wire
    /\ ret' = [op |-> op, exc |-> r.exc, arg |-> arg, res |-> res,
               val |-> IF Raised(r) THEN 0 ELSE r.val,
               pairs |-> IF Raised(r) THEN <<>> ELSE r.pairs,
               points |-> points,
               conn0 |-> conn.inst, t0 |-> conn.timeout, oe0 |-> conn.output_enabled,
               rm0 |-> conn.rm, fin |-> r.fin]
    /\ ui' = r.ui
    /\ gen' = gen

Connect(resource_name) ==
    /\ ret.op = "idle"
    /\ \E r \in connect(Call(conn, dev, ui, MaxFaults), resource_name) :
         Return("connect", r, Fin(0), resource_name, <<>>)

SetVoltage(voltage) ==
    /\ ret.op = "idle"
    /\ \E r \in set_voltage(Call(conn, dev, ui, MaxFaults), voltage) :
         Return("set_voltage", r, voltage, NoRes, <<>>)

SetCompliance(compliance_ua) ==
    /\ ret.op = "idle"
    /\ \E r \in set_current_compliance_ua(Call(conn, dev, ui, MaxFaults), compliance_ua) :
         Return("set_current_compliance_ua", r, compliance_ua, NoRes, <<>>)

MeasureCurrent ==
    /\ ret.op = "idle"
    /\ \E r \in measure_current(Call(conn, dev, ui, MaxFaults)) :
         Return("measure_current", r, Fin(0), NoRes, <<>>)

RunTspSweep(voltages, delay_s) ==
    /\ ret.op = "idle"
    /\ \E r \in run_tsp_sweep(Call(conn, dev, ui, MaxFaults), voltages, delay_s) :
         Return("run_tsp_sweep", r, delay_s, NoRes, voltages)

EnableOutput ==
    /\ ret.op = "idle"
    /\ \E r \in enable_output(Call(conn, dev, ui, MaxFaults)) :
         Return("enable_output", r, Fin(0), NoRes, <<>>)

DisableOutput ==
    /\ ret.op = "idle"
    /\ \E r \in disable_output(Call(conn, dev, ui, MaxFaults)) :
         Return("disable_output", r, Fin(0), NoRes, <<>>)

ZeroOutput ==
    /\ ret.op = "idle"
    /\ \E r \in zero_output(Call(conn, dev, ui, MaxFaults)) :
         Return("zero_output", r, Fin(0), NoRes, <<>>)

Close ==
    /\ ret.op = "idle"
    /\ \E r \in close(Call(conn, dev, ui, MaxFaults)) :
         Return("close", r, Fin(0), NoRes, <<>>)

\* Control returns to the event loop.
mainloop ==
    /\ ret.op # "idle"
    /\ ret' = IdleRet
    /\ wire' = <<>>
    /\ UNCHANGED <<conn, dev, ui, gen>>

\* The session driven through its public operations by one serial caller.
Next ==
    \/ mainloop
    \/ \E resource_name \in Resources : Connect(resource_name)
    \/ \E voltage \in Voltages : SetVoltage(voltage)
    \/ \E compliance_ua \in Compliances : SetCompliance(compliance_ua)
    \/ MeasureCurrent
    \/ \E voltages \in Plans, delay_s \in Delays : RunTspSweep(voltages, delay_s)
    \/ EnableOutput
    \/ DisableOutput
    \/ ZeroOutput
    \/ Close

Spec == Init /\ [][Next]_vars

-----------------------------------------------------------------------------
(* The control panel: its event handlers, one per event. *)

Handled(op, r, arg, res, points) ==
    /\ r.ui.orphans <= MaxOrphans
    /\ Return(op, r, arg, res, points)

PanelConnect(resource) ==
    /\ ret.op = "idle" /\ ~ui.destroyed
    /\ \E r \in ui_connect(Call(conn, dev, ui, PanelFaults), resource) :
         Handled("connect", r, Fin(0), resource, <<>>)

PanelSetVoltage(voltage) ==
    /\ ret.op = "idle" /\ ~ui.destroyed
    /\ ui.connected /\ ~ui.sweep_running
    /\ \E r \in ui_set_voltage(Call(conn, dev, ui, PanelFaults), voltage) :
         Handled("set_voltage", r, voltage, NoRes, <<>>)

StartSweep(values, delay, sweep_exec) ==
    /\ ret.op = "idle" /\ ~ui.destroyed
    /\ \E r \in _start_sweep_run(Call(conn, dev, ui, PanelFaults), values, delay, sweep_exec) :
         Handled(IF sweep_exec = "Step-by-step" THEN "sweep_example"
                 ELSE "fast_sweep", r, delay, NoRes, values)

\* A pending step callback fires: the one sweep_after_id names, or an orphan.
SweepStep ==
    /\ ret.op = "idle" /\ ~ui.destroyed
    /\ \/ /\ ui.sweep_after_id
          /\ \E r \in _run_next_sweep_step(
                         Call(conn, dev, [ui EXCEPT !.sweep_after_id = FALSE], PanelFaults)) :
               Handled("sweep_step", r, Fin(0), NoRes, <<>>)
       \/ /\ ui.orphans > 0
          /\ \E r \in _run_next_sweep_step(
                         Call(conn, dev, [ui EXCEPT !.orphans = @ - 1], PanelFaults)) :
               Handled("sweep_step", r, Fin(0), NoRes, <<>>)

Stop ==
    /\ ret.op = "idle" /\ ~ui.destroyed
    /\ \E r \in stop(Call(conn, dev, ui, PanelFaults)) :
         Handled("stop", r, Fin(0), NoRes, <<>>)

OnClose ==
    /\ ret.op = "idle" /\ ~ui.destroyed
    /\ \E r \in on_close(Call(conn, dev, ui, PanelFaults)) :
         Handled("on_close", r, Fin(0), NoRes, <<>>)

NextUI ==
    \/ mainloop
    \/ \E resource \in PanelResources : PanelConnect(resource)
    \/ \E voltage \in PanelVoltages : PanelSetVoltage(voltage)
    \/ \E values \in PanelPlans, delay \in PanelDelays, sweep_exec \in ExecModes :
          StartSweep(values, delay, sweep_exec)
    \/ SweepStep
    \/ Stop
    \/ OnClose

InitUI == Init /\ \E i \in PanelInstruments : dev.idn = i[1]

SpecUI == InitUI /\ [][NextUI]_vars

-----------------------------------------------------------------------------
(* The validators on their own, over the values around their limits. *)

NearVoltages ==
    {Fin(n) : n \in (-(MAX_ABS_VOLTAGE + ValMargin))..(MAX_ABS_VOLTAGE + ValMargin)}
    \cup {PosInf, NegInf, NaN, NotANumber}
NearCompliances ==
    {Fin(n) : n \in ((-ValMargin)..ValMargin)
                    \cup ((MAX_COMPLIANCE_UA - ValMargin)..(MAX_COMPLIANCE_UA + ValMargin))}
    \cup {PosInf, NegInf, NaN, NotANumber}

ValidateVoltage(voltage) ==
    /\ ret.op = "idle"
    /\ ret' = [IdleRet EXCEPT !.op = "_validate_voltage", !.arg = voltage,
                              !.exc = Exc(_validate_voltage(voltage))]
    /\ UNCHANGED <<conn, dev, ui, wire, gen>>

ValidateCompliance(compliance_ua) ==
    /\ ret.op = "idle"
    /\ ret' = [IdleRet EXCEPT !.op = "_validate_compliance", !.arg = compliance_ua,
                              !.exc = Exc(_validate_compliance(compliance_ua))]
    /\ UNCHANGED <<conn, dev, ui, wire, gen>>

NextValidate ==
    \/ mainloop
    \/ \E voltage \in NearVoltages : ValidateVoltage(voltage)
    \/ \E compliance_ua \in NearCompliances : ValidateCompliance(compliance_ua)

SpecValidate == Init /\ [][NextValidate]_vars

-----------------------------------------------------------------------------
(* The error drain on its own, on the sessions connect() leaves. *)

CheckInstrumentErrors ==
    /\ ret.op = "idle"
    /\ \E r \in _check_instrument_errors(Call(conn, dev, ui, DrainFaults)) :
         Return("_check_instrument_errors", r, Fin(0), NoRes, <<>>)

NextDrain ==
    \/ mainloop
    \/ \E resource_name \in PanelResources : Connect(resource_name)
    \/ CheckInstrumentErrors

SpecDrain == Init /\ [][NextDrain]_vars

-----------------------------------------------------------------------------
(* The sweep generators on their own.  The numbers are what the user typed, *)
(* whole multiples of DecimalQuantum; a generator is handed the floats       *)
(* nearest to them.                                                          *)

\* the step typed, in units, and the grid it spans
GenStep == 1050 * DecimalQuantum
GridPoints == {k * GenStep : k \in (-MaxGrid)..MaxGrid}
GenSteps == {-GenStep, 0, GenStep}
GenStarts == {-2 * GenStep, 0, GenStep}
\* how far from the grid the stop typed lies
GenOffsets == {-DecimalQuantum, 0, DecimalQuantum}
GenCycles == 0..MaxCycles
GenPeaks == {k * GenStep : k \in {-1} \cup 0..MaxGrid}
            \cup {GenStep + DecimalQuantum, GenStep \div 2}
HoldTimes == 1..MaxHold
HoldIntervals == {2, 4}
HoldVoltages == {<<2 * DecimalQuantum, DecimalQuantum, -2 * DecimalQuantum>>,
                 <<7 * GenStep, GenStep, -7 * GenStep>>}
SegmentEnds == {-GenStep, 0, 2 * GenStep}
Segments == SegmentEnds \X SegmentEnds
SegmentLists == {<<>>} \cup {<<s>> : s \in Segments}
                \cup {<<s, t>> : <<s, t>> \in {p \in Segments \X Segments :
                                                  p[1][2] = p[2][1]}}

Generated(op, args, r) ==
    /\ gen' = [op |-> op, args |-> args, values |-> r.values,
               cycle_ids |-> r.cycle_ids, returns |-> r.returns]
    /\ UNCHANGED <<conn, dev, ui, wire, ret>>

BuildSweepValues(start, stop_v, step) ==
    /\ gen.op = "idle"
    /\ Generated("_build_sweep_values", <<start, stop_v, step>>,
                 _build_sweep_values(Fl(start), Fl(stop_v), Fl(step)))

BuildSimpleCycle(peak_v, step, cycles) ==
    /\ gen.op = "idle"
    /\ Generated("_build_simple_cycle_values_with_cycles", <<peak_v, step, cycles>>,
                 _build_simple_cycle_values_with_cycles(Fl(peak_v), Fl(step), cycles))

BuildWrer(v, write_t, read_t, erase_t, sample_interval_s, cycles) ==
    /\ gen.op = "idle"
    /\ Generated("_build_wrer_values_with_cycles",
                 <<v, write_t, read_t, erase_t, sample_interval_s, cycles>>,
                 _build_wrer_values_with_cycles(Fl(v[1]), write_t, Fl(v[2]), read_t,
                                                Fl(v[3]), erase_t, sample_interval_s,
                                                cycles))

BuildCustomSequence(custom_segments, step, cycles) ==
    /\ gen.op = "idle"
    /\ Generated("_build_custom_sequence_values_with_cycles",
                 <<custom_segments, step, cycles>>,
                 _build_custom_sequence_values_with_cycles(
                    [i \in 1..Len(custom_segments) |->
                       <<Fl(custom_segments[i][1]), Fl(custom_segments[i][2])>>],
                    Fl(step), cycles))

\* The result is taken; a call that never comes back is not.
GenDone ==
    /\ gen.op # "idle" /\ gen.returns
    /\ gen' = IdleGen
    /\ UNCHANGED <<conn, dev, ui, wire, ret>>

NextGen ==
    \/ GenDone
    \/ \E start \in GenStarts, stop_v \in GridPoints, off \in GenOffsets,
          step \in GenSteps :
          BuildSweepValues(start, start + stop_v + off, step)
    \/ \E peak_v \in GenPeaks, step \in GenSteps, cycles \in GenCycles :
          BuildSimpleCycle(peak_v, step, cycles)
    \/ \E v \in HoldVoltages, write_t \in HoldTimes, read_t \in HoldTimes,
          erase_t \in HoldTimes, sample_interval_s \in HoldIntervals,
          cycles \in GenCycles :
          BuildWrer(v, write_t, read_t, erase_t, sample_interval_s, cycles)
    \/ \E custom_segments \in SegmentLists, step \in GenSteps, cycles \in GenCycles :
          BuildCustomSequence(custom_segments, step, cycles)

SpecGen == Init /\ [][NextGen]_vars

-----------------------------------------------------------------------------
(* Properties *)

Failed == ret.exc.msg # "none"
Writes == SelectSeq(wire, LAMBDA e : e.op = "write")
Opens == SelectSeq(wire, LAMBDA e : e.op = "open")
OpenName(e) == Res(e.cmd, e.v, e.a)
IsZeroingWrite(e) ==
    /\ e.op = "write"
    /\ \/ e.cmd \in {"SOUR:VOLT", "smua.source.levelv ="} /\ e.v = 0
       \/ e.cmd \in {"OUTP OFF", "smua.source.output = smua.OUTPUT_OFF"}
ZeroingDelivered == \A i \in 1..Len(wire) : IsZeroingWrite(wire[i]) => wire[i].ok
Zeroed == dev.level = 0 /\ dev.output = "off"

OutOfRangeVoltage(x) == x.t # "fin" \/ x.n > 210 \/ x.n < -210
OutOfRangeCompliance(x) == x.t # "fin" \/ x.n <= 0 \/ x.n > 1000000

\* C3: set_voltage with an out-of-range voltage, set_current_compliance_ua
\* with an out-of-range compliance and run_tsp_sweep with an out-of-range
\* point fail with no transport operation issued, the timeout and the
\* output-enabled flag unchanged.
C3_ValidationPrecedesIO ==
    (\/ ret.op = "set_voltage" /\ OutOfRangeVoltage(ret.arg)
     \/ ret.op = "set_current_compliance_ua" /\ OutOfRangeCompliance(ret.arg)
     \/ /\ ret.op = "run_tsp_sweep"
        /\ \E i \in 1..Len(ret.points) : OutOfRangeVoltage(ret.points[i]))
    => /\ Failed
       /\ wire = <<>>
       /\ conn.timeout = ret.t0
       /\ conn.output_enabled = ret.oe0

\* A connected session with the output off refused an out-of-range voltage.
C3_Witness ==
    /\ ret.op = "set_voltage" /\ ret.conn0 = "open" /\ ~ret.oe0
    /\ ret.arg = Fin(211)
    /\ ret.exc.msg = "Voltage exceeds allowed range"
    /\ wire = <<>> /\ dev.output = "off"

\* C4: voltage validation fails for |v| > 210 and for non-finite v, and
\* succeeds for finite v with |v| <= 210, the limits included.
C4_VoltageValidation ==
    ret.op = "_validate_voltage"
    => (Failed <=> OutOfRangeVoltage(ret.arg))

\* The limit itself was accepted.
C4_Witness ==
    ret.op = "_validate_voltage" /\ ret.arg = Fin(-210) /\ ~Failed

\* C5: compliance validation succeeds exactly for finite c with
\* 0 < c <= 1000000.
C5_ComplianceValidation ==
    ret.op = "_validate_compliance"
    => (~Failed <=> (ret.arg.t = "fin" /\ ret.arg.n > 0 /\ ret.arg.n <= 1000000))

\* Zero was refused.
C5_Witness ==
    /\ ret.op = "_validate_compliance" /\ ret.arg = Fin(0)
    /\ ret.exc.msg = "Compliance must be greater than 0 uA"

\* C6 as stated: after connect() raises for any reason, also on a session
\* that was connected, the session holds no instrument handle.
C6_FailedConnectHoldsNoHandle ==
    (ret.op = "connect" /\ Failed) => conn.inst = "none"

\* C7: a GPIB bus 0 or 1 name whose first open attempt fails 'not present'
\* is retried exactly once on the other bus index with the same address; at
\* most two attempts are made, and the handle of a second attempt that
\* succeeds is the one the session gets.
C7_GpibFallbackOnce ==
    ret.op = "connect"
    => /\ Len(Opens) <= 2
       /\ (/\ Len(Opens) >= 1
           /\ ret.res.kind = "GPIB" /\ ret.res.bus \in {0, 1}
           /\ Opens[1].err \in {"VI_ERROR_RSRC_NFOUND (0xBFFF0011)",
                                "Insufficient location information"})
          => /\ Len(Opens) = 2
             /\ OpenName(Opens[1]) = ret.res
             /\ OpenName(Opens[2]) = Res("GPIB", 1 - ret.res.bus, ret.res.addr)
             /\ (Opens[2].ok => conn.last_resource = OpenName(Opens[2]))
             /\ (~Opens[2].ok => Failed)

\* Bus 0 was not present and the session was opened on bus 1.
C7_Witness ==
    /\ ret.op = "connect" /\ ~Failed /\ ret.res = Res("GPIB", 0, 5)
    /\ Len(Opens) = 2 /\ ~Opens[1].ok /\ Opens[2].ok
    /\ conn.inst = "open" /\ conn.last_resource = Res("GPIB", 1, 5)

\* C8: an open attempt that fails with an error other than 'not present' ends
\* the open at once, and a name that is not GPIB bus 0 or 1 is attempted at
\* most once.
C8_NoFallbackOnOtherErrors ==
    ret.op = "connect"
    => /\ \A i \in 1..Len(Opens) :
             Opens[i].err = "VI_ERROR_RSRC_BUSY (0xBFFF0072)"
             => i = Len(Opens) /\ Failed
       /\ (~(ret.res.kind = "GPIB" /\ ret.res.bus \in {0, 1})
           => /\ Len(Opens) <= 1
              /\ \A i \in 1..Len(Opens) : OpenName(Opens[i]) = ret.res)

\* Bus 0 was busy and bus 1 was not tried.
C8_Witness ==
    /\ ret.op = "connect" /\ Failed /\ ret.res = Res("GPIB", 0, 5)
    /\ Len(Opens) = 1 /\ Opens[1].err = "VI_ERROR_RSRC_BUSY (0xBFFF0072)"
    /\ conn.inst = "none"

\* C9 as stated: whenever the open fails, its message lists every resource
\* name attempted in the call and quotes the last transport error.
C9_FailureNamesEveryAttempt ==
    (/\ ret.op = "connect"
     /\ ret.exc.msg \in {"Could not open GPIB resource", "Error opening resource"})
    => /\ ret.exc.tried = [i \in 1..Len(Opens) |-> OpenName(Opens[i])]
       /\ ret.exc.cause = Opens[Len(Opens)].err

VendorTokenIn(s) ==
    \/ Contains(Upper(s), <<"K","E","I","T","H","L","E","Y">>)
    \/ Contains(Upper(s), <<"T","E","K","T","R","O","N","I","X">>)

\* C10: connect() succeeds only with an identity that holds KEITHLEY or
\* TEKTRONIX in any letter case; with any other identity, the fallback
\* identity of two failed queries included, it fails, sends no command to
\* the device after the open, closes the handle and drops it.
C10_IdentityGate ==
    ret.op = "connect"
    => /\ (~Failed => VendorTokenIn(conn.idn))
       /\ \A k \in 1..Len(wire) :
             (wire[k].op = "open" /\ wire[k].ok /\ ~VendorTokenIn(conn.idn))
             => /\ Failed
                /\ conn.inst = "none"
                /\ \A j \in (k + 1)..Len(wire) : wire[j].op # "write"
                /\ \E j \in (k + 1)..Len(wire) : wire[j].op = "close"

\* Both identity queries failed and the session was closed unconfigured.
C10_Witness ==
    /\ ret.op = "connect" /\ Failed /\ conn.idn = UnknownInstrument
    /\ conn.inst = "none"
    /\ \E k \in 1..Len(wire) : wire[k].op = "open" /\ wire[k].ok
    /\ \E k \in 1..Len(wire) : wire[k].op = "close"
    /\ Writes = <<>>

IsLevelWrite(e) == e.op = "write" /\ e.cmd \in {"SOUR:VOLT", "smua.source.levelv ="}
IsZeroLevel(e) == IsLevelWrite(e) /\ e.v = 0
IsOutputOn(e) ==
    e.op = "write" /\ e.cmd \in {"OUTP ON", "smua.source.output = smua.OUTPUT_ON"}
IsOutputOff(e) ==
    e.op = "write" /\ e.cmd \in {"OUTP OFF", "smua.source.output = smua.OUTPUT_OFF"}
IsDrainQuery(e) ==
    e.op = "query" /\ e.cmd \in {"SYST:ERR?", "print(errorqueue.count)", "errorqueue.next()"}
IsMeasure(e) == e.op = "query" /\ e.cmd \in {"MEAS:CURR?", "print(smua.measure.i())"}
IsRelease(e) == e.op = "close"
TeardownOnly(w) ==
    \A i \in 1..Len(w) : IsZeroLevel(w[i]) \/ IsOutputOff(w[i]) \/ IsDrainQuery(w[i])
ZeroThenOff(w) ==
    \E i, j \in 1..Len(w) : i < j /\ IsZeroLevel(w[i]) /\ IsOutputOff(w[j])
ZeroOffRelease(w) ==
    \E i, j, k \in 1..Len(w) :
       /\ i < j /\ j < k
       /\ IsZeroLevel(w[i]) /\ IsOutputOff(w[j]) /\ IsRelease(w[k])
       /\ \A o \in 1..Len(w) : w[o].op = "open" => k < o
\* The drain read an error entry.
ErrorEntry(e) ==
    \/ /\ e.cmd = "SYST:ERR?" /\ e.resp.k = "text"
       /\ ~(Len(e.resp.s) >= 1 /\ e.resp.s[1] = "0")
       /\ ~(Len(e.resp.s) >= 2 /\ e.resp.s[1] = "+" /\ e.resp.s[2] = "0")
    \/ e.cmd = "errorqueue.next()" /\ e.resp.k = "num" /\ e.resp.n # 0
Unreadable(e) == e.op = "query" /\ e.ok /\ e.resp.k = "garbage"
SweepOps == {"sweep_example", "sweep_step", "fast_sweep"}

\* C11 as stated: zero_output never raises to its caller -- whichever of its
\* writes fails, it returns normally with output-off attempted and the local
\* output-enabled flag false.
C11_ZeroOutputNeverRaises ==
    ret.op = "zero_output"
    => /\ ~Failed
       /\ ~conn.output_enabled
       /\ (ret.conn0 # "none" => \E i \in 1..Len(wire) : IsOutputOff(wire[i]))

\* C12: on stop(), on a reconnect, on window close and on a sweep abort, with
\* a session at hand, the zero-level write is attempted, then the output-off
\* write, then (reconnect, close) the release of the handle, each whether or
\* not the earlier ones went through.
C12_TeardownOrder ==
    /\ (ret.op = "stop" /\ ret.conn0 # "none") => ZeroThenOff(wire)
    /\ (ret.op \in {"connect", "on_close"} /\ ret.conn0 # "none") => ZeroOffRelease(wire)
    /\ (ret.op \in SweepOps /\ ret.fin /\ Failed /\ ui.connected)
       => \E i, j \in 1..Len(wire) :
             /\ i < j /\ IsZeroLevel(wire[i]) /\ IsOutputOff(wire[j])
             /\ \A k \in (i + 1)..Len(wire) :
                   ~IsOutputOn(wire[k]) /\ (IsLevelWrite(wire[k]) => wire[k].v = 0)

\* A reconnect whose zero-level write failed still tried output-off and then
\* released the old handle before opening.
C12_Witness ==
    /\ ret.op = "connect" /\ ret.conn0 = "open"
    /\ \E i, j, k \in 1..Len(wire) :
          /\ i < j /\ j < k
          /\ IsZeroLevel(wire[i]) /\ ~wire[i].ok
          /\ IsOutputOff(wire[j]) /\ IsRelease(wire[k])
    /\ \E o \in 1..Len(wire) : wire[o].op = "open"

\* C13: close() never raises and leaves neither an instrument handle nor a
\* resource manager; on a session that has neither it issues no I/O and
\* leaves session and instrument as they were.
C13_CloseIdempotent ==
    [][(ret.op = "idle" /\ ret'.op = "close")
       => /\ ret'.exc.msg = "none"
          /\ conn'.inst = "none" /\ ~conn'.rm
          /\ (conn.inst = "none" /\ ~conn.rm)
             => (wire' = <<>> /\ conn' = conn /\ dev' = dev)]_vars

\* A second close() after a session had been opened and closed.
C13_Witness ==
    /\ ret.op = "close" /\ ret.conn0 = "none" /\ ~ret.rm0
    /\ conn.last_resource # NoRes
    /\ wire = <<>> /\ conn.inst = "none" /\ ~conn.rm /\ ~Failed

\* C14: a set_voltage call that passes validation sends output-on first and
\* the level afterwards, for any level and any state of the output; when
\* enabling the output fails no level is sent.
C14_OutputOnBeforeLevel ==
    (ret.op = "set_voltage" /\ ~OutOfRangeVoltage(ret.arg) /\ ret.conn0 # "none")
    => /\ wire # <<>> /\ IsOutputOn(wire[1])
       /\ \A i \in 1..Len(wire) :
             IsLevelWrite(wire[i])
             => /\ i > 1 /\ wire[i].v = ret.arg.n
                /\ \A k \in 1..(i - 1) :
                      wire[k].ok /\ ~ErrorEntry(wire[k]) /\ ~Unreadable(wire[k])

\* Level 0 was set on a session whose output was already on.
C14_Witness ==
    /\ ret.op = "set_voltage" /\ ret.arg = Fin(0) /\ ret.oe0 /\ ~Failed
    /\ IsOutputOn(wire[1])
    /\ \E i \in 2..Len(wire) : IsZeroLevel(wire[i]) /\ wire[i].ok

\* C15: set_voltage and set_current_compliance_ua read the device error
\* status after forwarding the command; when the status was read through,
\* the call fails with a device error exactly if an error entry was read.
C15_DrainDecides ==
    (/\ \/ ret.op = "set_voltage" /\ ~OutOfRangeVoltage(ret.arg)
        \/ ret.op = "set_current_compliance_ua" /\ ~OutOfRangeCompliance(ret.arg)
     /\ ret.conn0 = "open"
     /\ \A i \in 1..Len(wire) : wire[i].ok /\ ~Unreadable(wire[i]))
    => /\ Failed <=> \E i \in 1..Len(wire) : ErrorEntry(wire[i])
       /\ Failed => ret.exc.msg \in {"Instrument error", "Instrument error(s)"}
       /\ ~Failed => \E i \in 1..(Len(wire) - 1) :
                        /\ wire[i].op = "write"
                        /\ wire[i].cmd \in {"SOUR:VOLT", "smua.source.levelv =",
                                            "SENS:CURR:PROT", "smua.source.limiti ="}
                        /\ IsDrainQuery(wire[i + 1])

\* The error queue held entries after the limit was written.
C15_Witness ==
    /\ ret.op = "set_current_compliance_ua" /\ ret.arg = Fin(100)
    /\ ret.exc.msg = "Instrument error(s)" /\ ret.exc.codes # <<>>
    /\ \A i \in 1..Len(wire) : wire[i].ok

\* C16 as stated: on a session that is not Ready -- never connected, closed,
\* or left by a failed connect() -- measure_current, set_voltage,
\* set_current_compliance_ua, enable_output, disable_output and run_tsp_sweep
\* fail with 'Not connected' and issue no transport I/O.
C16_DisconnectedRefuses ==
    (/\ ret.op \in {"measure_current", "set_voltage", "set_current_compliance_ua",
                    "enable_output", "disable_output", "run_tsp_sweep"}
     /\ ret.conn0 # "open")
    => (ret.exc.msg = "Not connected" /\ wire = <<>>)

\* C17: measure_current returns no value of magnitude 9.9e37 or more: such
\* a reading makes the call fail.
C17_NoOverflowReading ==
    ret.op = "measure_current"
    => /\ ~Failed => (ret.val < OVERFLOW /\ ret.val > -OVERFLOW)
       /\ \A i \in 1..Len(wire) :
             (wire[i].resp.k = "num"
              /\ (wire[i].resp.n >= OVERFLOW \/ wire[i].resp.n <= -OVERFLOW))
             => ret.exc.msg = "Current reading is overrange/compliance"

\* The instrument answered with the sentinel itself.
C17_Witness ==
    /\ ret.op = "measure_current"
    /\ ret.exc.msg = "Current reading is overrange/compliance"
    /\ \E i \in 1..Len(wire) : wire[i].resp = Num(OVERFLOW)

\* C18 as stated: a host-paced sweep in which set_voltage or measure_current
\* fails at point k is aborted -- the failing handler emits no measurement,
\* schedules no callback and runs the teardown, and no step callback sources
\* or measures a point of the aborted sweep afterwards.
C18_AbortEndsSweep ==
    [][/\ (/\ ret.op = "idle" /\ ret'.op \in {"sweep_example", "sweep_step"}
           /\ ret'.exc.msg # "none")
          => /\ ~ui'.sweep_running /\ ~ui'.sweep_after_id
             /\ ui'.rows = (IF ret'.op = "sweep_step" THEN ui.rows ELSE <<>>)
             /\ (ui'.connected => ZeroThenOff(wire'))
       /\ (/\ ret.op = "idle" /\ ret'.op = "sweep_step"
           /\ ~ui.sweep_running /\ ~ui.stop_flag
           /\ ui.sweep_index < Len(ui.sweep_values))
          => \A i \in 1..Len(wire') :
                ~IsMeasure(wire'[i]) /\ (IsLevelWrite(wire'[i]) => wire'[i].v = 0)]_vars

\* C19: stop() sets the cancellation flag, cancels the pending step callback
\* and issues only the zero/disable teardown; a step callback that finds the
\* flag set sources and measures nothing and schedules nothing.
C19_StopEndsSweep ==
    [][/\ (ret.op = "idle" /\ ret'.op = "stop")
          => /\ ui'.stop_flag /\ ~ui'.sweep_running /\ ~ui'.sweep_after_id
             /\ ui'.orphans = ui.orphans
             /\ ui'.rows = ui.rows /\ ui'.sweep_index = ui.sweep_index
             /\ TeardownOnly(wire')
       /\ (ret.op = "idle" /\ ret'.op = "sweep_step" /\ ui.stop_flag)
          => /\ TeardownOnly(wire')
             /\ ui'.rows = ui.rows /\ ui'.sweep_index = ui.sweep_index
             /\ ~ui'.sweep_running /\ ~ui'.sweep_after_id]_vars

\* A host-paced sweep was stopped between two of its points.
C19_Witness ==
    /\ ret.op = "stop" /\ ret.fin /\ ui.stop_flag
    /\ ui.sweep_index > 0 /\ ui.sweep_index < Len(ui.sweep_values)
    /\ Len(ui.rows) = ui.sweep_index
    /\ ZeroThenOff(wire) /\ Zeroed

\* C20: a host-paced sweep that is neither cancelled nor failing takes the
\* points in plan order, for each sets the voltage, then measures, then logs
\* the point and advances the index by one, up to N; the step that finds the
\* index at N logs nothing and ends the sweep.
C20_PlanOrder ==
    [][/\ ui'.sweep_index <= Len(ui'.sweep_values)
       /\ (/\ ret.op = "idle" /\ ret'.op = "sweep_step" /\ ret'.exc.msg = "none"
           /\ ~ui.stop_flag)
          => IF ui.sweep_index < Len(ui.sweep_values)
             THEN /\ ui'.sweep_index = ui.sweep_index + 1
                  /\ ui'.rows = Append(ui.rows, ui.sweep_values[ui.sweep_index + 1].n)
                  /\ ui'.sweep_values = ui.sweep_values
                  /\ ui'.sweep_after_id
                  /\ \E i, j \in 1..Len(wire') :
                        /\ i < j /\ IsMeasure(wire'[j])
                        /\ IsLevelWrite(wire'[i])
                        /\ wire'[i].v = ui.sweep_values[ui.sweep_index + 1].n
                  /\ \A i \in 1..Len(wire') :
                        IsLevelWrite(wire'[i])
                        => wire'[i].v = ui.sweep_values[ui.sweep_index + 1].n
             ELSE /\ ui'.sweep_index = Len(ui.sweep_values)
                  /\ ui'.rows = ui.rows
                  /\ ~ui'.sweep_running /\ ~ui'.sweep_after_id
                  /\ TeardownOnly(wire')
       /\ (ret.op = "idle" /\ ret'.op = "sweep_example" /\ ret'.exc.msg = "none")
          => /\ ui'.sweep_values = ret'.points
             /\ ui'.sweep_index = 1 /\ ui'.rows = <<ret'.points[1].n>>
             /\ ui'.sweep_after_id]_vars

\* A sweep ran through its plan and was ended by the step callback that found
\* no point left.
C20_Witness ==
    /\ ret.op = "sweep_step" /\ ret.fin /\ ~Failed /\ ~ui.stop_flag
    /\ ui.sweep_index = MaxPoints /\ Len(ui.sweep_values) = MaxPoints
    /\ ui.rows = [i \in 1..MaxPoints |-> 4 + i]
    /\ ui.orphans = 0

IsScriptQuery(e) == e.op = "query" /\ e.cmd = "script"
\* 1000 times the transport timeout C23 states, for n points, a delay of
\* delay_us microseconds and the timeout t0 (ms) before the call.
StatedTimeoutMilli(n, delay_us, t0) ==
    LET lo == MIN_FAST_TIMEOUT * 1000
        hi == MAX_FAST_TIMEOUT * 1000
        d == IF delay_us > 1 THEN delay_us ELSE 1
        \* n * d * 8, or some value beyond the upper limit when it is beyond
        x == IF n = 0 THEN 0
             ELSE IF d > hi \div (n * 8) THEN hi + 1 ELSE n * d * 8
        clamped == IF x < lo THEN lo ELSE IF x > hi THEN hi ELSE x
    IN  IF t0 * 1000 > clamped THEN t0 * 1000 ELSE clamped

\* C21: run_tsp_sweep on a session in the line-command dialect fails, sends
\* nothing to the instrument and leaves the transport timeout as it was.
C21_FastSweepNeedsScriptDialect ==
    (ret.op = "run_tsp_sweep" /\ ret.conn0 # "none" /\ conn.mode = "scpi")
    => /\ ret.exc.msg = "Fast instrument sweep is available only for Keithley 2600 TSP mode"
       /\ wire = <<>>
       /\ conn.timeout = ret.t0

\* A valid fast sweep was requested from a connected line-command instrument.
C21_Witness ==
    /\ ret.op = "run_tsp_sweep" /\ ret.conn0 = "open" /\ conn.mode = "scpi"
    /\ ret.points = <<Fin(5)>> /\ ret.arg = Fin(0)
    /\ Failed /\ wire = <<>>

\* C22: a fast sweep of a non-empty list whose reply holds no pair fails with
\* the no-data error; the call returns an empty result only for an empty
\* request, and then without any I/O.
C22_EmptyFastSweepResult ==
    ret.op = "run_tsp_sweep"
    => /\ ~Failed => /\ ret.pairs = <<>> <=> ret.points = <<>>
                     /\ ret.points = <<>> => wire = <<>>
       /\ \A i \in 1..Len(wire) :
             (IsScriptQuery(wire[i]) /\ wire[i].ok /\ wire[i].resp \in {Pairs(0), Garbage})
             => ret.exc.msg = "Instrument fast sweep returned no parseable data"

\* The script came back with nothing for a list of two points.
C22_Witness ==
    /\ ret.op = "run_tsp_sweep" /\ Len(ret.points) = 2
    /\ \E i \in 1..Len(wire) :
          IsScriptQuery(wire[i]) /\ wire[i].ok /\ wire[i].resp = Pairs(0)
    /\ ret.exc.msg = "Instrument fast sweep returned no parseable data"

\* C23 as stated: while the script query is in flight the transport timeout
\* in ms equals max(T0, clamp(N * max(delay, 1 us) * 8000, 20000, 300000)).
C23_TimeoutBudgetExact ==
    ret.op = "run_tsp_sweep"
    => \A i \in 1..Len(wire) :
          IsScriptQuery(wire[i])
          => wire[i].v * 1000 = StatedTimeoutMilli(Len(ret.points), ret.arg.n, ret.t0)

\* C23, amended: while the script query is in flight the transport timeout is
\* that value with the estimate cut to whole milliseconds; it is never below
\* T0 and never below 20000 ms, and exceeds 300000 ms only when T0 does.
C23_TimeoutBudgetWholeMs ==
    ret.op = "run_tsp_sweep"
    => \A i \in 1..Len(wire) :
          IsScriptQuery(wire[i])
          => /\ wire[i].v * 1000 <= StatedTimeoutMilli(Len(ret.points), ret.arg.n, ret.t0)
             /\ StatedTimeoutMilli(Len(ret.points), ret.arg.n, ret.t0) < (wire[i].v + 1) * 1000
             /\ wire[i].v >= ret.t0 /\ wire[i].v >= MIN_FAST_TIMEOUT
             /\ wire[i].v > MAX_FAST_TIMEOUT => ret.t0 > MAX_FAST_TIMEOUT

\* The script was sent for one point with a delay that makes the estimate a
\* fraction of a millisecond more than the timeout.
C23_Witness ==
    /\ ret.op = "run_tsp_sweep" /\ Len(ret.points) = 1
    /\ \E i \in 1..Len(wire) :
          /\ IsScriptQuery(wire[i])
          /\ wire[i].v > MIN_FAST_TIMEOUT /\ wire[i].v < MAX_FAST_TIMEOUT
          /\ wire[i].v * 1000 < StatedTimeoutMilli(1, ret.arg.n, ret.t0)

ValidationMessages ==
    {"Voltage must be a finite number", "Voltage exceeds allowed range",
     "Compliance must be a finite number", "Compliance must be greater than 0 uA",
     "Compliance exceeds allowed range", "Delay must be a non-negative finite number"}
ZeroLevelWrites == {i \in 1..Len(wire) : IsZeroLevel(wire[i])}
OutputOffWrites == {i \in 1..Len(wire) : IsOutputOff(wire[i])}

\* C29 as stated: a request rejected by validation causes no zero-level and
\* no output-off command, in any handler -- also at a point of a host-paced
\* sweep, where the only such commands are the ones sweep_example sends
\* before the first point.
C29_ValidationNeverTearsDown ==
    ret.exc.msg \in ValidationMessages
    => IF ret.op = "sweep_example"
       THEN Cardinality(ZeroLevelWrites) <= 1 /\ Cardinality(OutputOffWrites) <= 1
       ELSE ZeroLevelWrites = {} /\ OutputOffWrites = {}

\* What a handler's error message says went wrong is found among the
\* transport operations lo+1 .. hi-1 of the handler.
CausedWithin(lo, hi) ==
    LET span == {i \in 1..Len(wire) : lo < i /\ i < hi}
    IN  CASE ret.exc.msg = TransportError -> \E i \in span : ~wire[i].ok
          [] ret.exc.msg \in {"Instrument error", "Instrument error(s)"} ->
                \E i \in span : ErrorEntry(wire[i])
          [] ret.exc.msg = "Unexpected current response" ->
                \E i \in span : Unreadable(wire[i])
          [] ret.exc.msg = "Current reading is overrange/compliance" ->
                \E i \in span : IsMeasure(wire[i]) /\ wire[i].resp.k = "num"
          [] ret.exc.msg = "Instrument fast sweep returned no parseable data" ->
                \E i \in span : IsScriptQuery(wire[i]) /\ wire[i].ok
          [] OTHER -> TRUE
LastZeroLevelWrite == CHOOSE z \in ZeroLevelWrites : \A k \in ZeroLevelWrites : k <= z
SetupReleases ==
    {k \in 1..Len(wire) : IsRelease(wire[k]) /\ \E o \in 1..(k - 1) : wire[o].op = "open"}
LastOpen(k) ==
    CHOOSE o \in 1..(k - 1) :
       wire[o].op = "open" /\ \A j \in (o + 1)..(k - 1) : wire[j].op # "open"

\* C30: when a sweep handler fails, or connect() fails after the resource was
\* opened, the error shown is the one that made it fail: what it reports
\* happened before the teardown (zero/disable, release of the handle) began,
\* whatever the teardown itself ran into.
C30_TeardownNeverMasks ==
    /\ (/\ ret.op \in SweepOps /\ Failed
        /\ ui.connected /\ conn.inst # "none" /\ ZeroLevelWrites # {})
       => CausedWithin(0, LastZeroLevelWrite)
    /\ (ret.op = "connect" /\ Failed)
       => \A k \in SetupReleases : CausedWithin(LastOpen(k), k)

\* A sweep failed on a rejected voltage and the zero-level write of the
\* teardown that followed failed in transport.
C30_Witness ==
    /\ ret.op = "sweep_example" /\ ui.connected /\ conn.inst = "open"
    /\ ret.exc.msg = "Voltage must be a finite number"
    /\ ZeroLevelWrites # {} /\ ~wire[LastZeroLevelWrite].ok

-----------------------------------------------------------------------------
(* The sweep generators *)

Reverse(s) == [i \in 1..Len(s) |-> s[Len(s) + 1 - i]]
IsSweepCall == gen.op = "_build_sweep_values"
\* the typed numbers start, stop and step lie on a common grid, stop at or
\* after start in the direction of step
OnGrid(start, stop_v, step) ==
    step # 0 /\ \E n \in 0..MaxGrid + 2 : stop_v - start = n * step
GridCount(start, stop_v, step) == CHOOSE n \in 0..MaxGrid + 2 : stop_v - start = n * step
\* the floats of start, start + step, ..., start + n * step
GridValues(start, step, n) == [k \in 1..n + 1 |-> Fl(start + (k - 1) * step)]

\* C24: the linear sweep generation returns for every input, and it returns
\* the empty list whenever the step is zero and whenever the sign of the step
\* disagrees with the sign of stop - start.
C24_SweepGenerationTotal ==
    IsSweepCall =>
        LET start == gen.args[1]
            stop_v == gen.args[2]
            step == gen.args[3]
        IN  /\ gen.returns
            /\ step = 0 => gen.values = <<>>
            /\ Sign(stop_v - start) * Sign(step) < 0 => gen.values = <<>>

\* C25: for start, stop and a nonzero step on a common grid with
\* stop - start = n * step, n >= 0, the linear sweep is exactly the n + 1
\* points start, start + step, ..., stop, and the sweep from stop to start
\* by -step is exactly the reversed list.
C25_GridSweepExact ==
    (IsSweepCall /\ OnGrid(gen.args[1], gen.args[2], gen.args[3])) =>
        LET start == gen.args[1]
            stop_v == gen.args[2]
            step == gen.args[3]
            n == GridCount(start, stop_v, step)
            back == _build_sweep_values(Fl(stop_v), Fl(start), Fl(-step))
        IN  /\ gen.returns
            /\ gen.values = GridValues(start, step, n)
            /\ back.returns
            /\ back.values = Reverse(gen.values)

IsCycleCall == gen.op = "_build_simple_cycle_values_with_cycles"
\* the walk 0 -> peak -> 0 -> -peak -> 0 over the grid of step, peak = n * step
CycleWalk(step, n) ==
    GridValues(0, step, n) \o Tail(GridValues(n * step, -step, n))
    \o Tail(GridValues(0, -step, n)) \o Tail(GridValues(-n * step, step, n))
RECURSIVE CyclePlan(_, _, _)
\* the walk for cycle 1, then for each k in 2..c the walk without its first point
CyclePlan(walk, k, c) ==
    IF k > c THEN <<>>
    ELSE (IF k = 1 THEN walk ELSE Tail(walk)) \o CyclePlan(walk, k + 1, c)
RECURSIVE CycleTags(_, _, _)
CycleTags(len, k, c) ==
    IF k > c THEN <<>>
    ELSE Repeat(k, IF k = 1 THEN len ELSE len - 1) \o CycleTags(len, k + 1, c)

\* C26: a simple cycle with peak = n * step, n >= 1, and c >= 1 cycles is
\* the walk 0 -> peak -> 0 -> -peak -> 0 of 4n + 1 points tagged 1, then for
\* each k in 2..c the same walk without its leading zero, 4n points tagged k;
\* the two lists have the same length; a peak of 0 gives the single point 0
\* tagged 1.
C26_SimpleCycleWalk ==
    (IsCycleCall /\ gen.args[2] # 0 /\ gen.args[3] >= 1
       /\ OnGrid(0, Abs(gen.args[1]), Abs(gen.args[2]))) =>
        LET step == Abs(gen.args[2])
            c == gen.args[3]
            n == GridCount(0, Abs(gen.args[1]), step)
        IN  /\ gen.returns
            /\ Len(gen.values) = Len(gen.cycle_ids)
            /\ n = 0 => gen.values = <<0>> /\ gen.cycle_ids = <<1>>
            /\ n >= 1 => /\ gen.values = CyclePlan(CycleWalk(step, n), 1, c)
                         /\ gen.cycle_ids = CycleTags(4 * n + 1, 1, c)

IsWrerCall == gen.op = "_build_wrer_values_with_cycles"
\* round(d / i): the whole number nearest to d / i, the even one of two
NearestWhole(d, i) ==
    CHOOSE n \in 0..d : /\ 2 * Abs(d - n * i) <= i
                        /\ 2 * Abs(d - n * i) = i => n % 2 = 0
StatedSamples(d, i) == Max(1, NearestWhole(d, i))
\* one pass: write, read, erase, read
WrerPass(v, nWrite, nRead, nErase) ==
    Repeat(Fl(v[1]), nWrite) \o Repeat(Fl(v[2]), nRead)
    \o Repeat(Fl(v[3]), nErase) \o Repeat(Fl(v[2]), nRead)

\* C27: a hold sequence with positive durations and interval holds each
\* phase's voltage for max(1, round(duration / interval)) samples, in the
\* order write, read, erase, read; c >= 1 cycles repeat the whole pass c
\* times, cycle k tagged k, c * (nWrite + 2 * nRead + nErase) points in all,
\* and the two lists have the same length.
C27_HoldSequence ==
    (IsWrerCall /\ gen.args[6] >= 1) =>
        LET v == gen.args[1]
            interval == gen.args[5]
            c == gen.args[6]
            nWrite == StatedSamples(gen.args[2], interval)
            nRead == StatedSamples(gen.args[3], interval)
            nErase == StatedSamples(gen.args[4], interval)
            pass == WrerPass(v, nWrite, nRead, nErase)
        IN  /\ gen.returns
            /\ Len(gen.values) = c * (nWrite + 2 * nRead + nErase)
            /\ Len(gen.cycle_ids) = Len(gen.values)
            /\ \A j \in 1..Len(gen.values) :
                  /\ gen.values[j] = pass[((j - 1) % Len(pass)) + 1]
                  /\ gen.cycle_ids[j] = ((j - 1) \div Len(pass)) + 1

\* two cycles, a write phase half way between two counts, an erase phase
\* shorter than half an interval
C27_Witness ==
    /\ IsWrerCall /\ gen.returns /\ gen.args[6] = 2
    /\ 2 * gen.args[2] = 3 * gen.args[5]
    /\ 2 * gen.args[4] < gen.args[5]
    /\ gen.args[2] # gen.args[3]
    /\ gen.values # <<>>
    /\ gen.cycle_ids[Len(gen.cycle_ids)] = 2

IsCustomCall == gen.op = "_build_custom_sequence_values_with_cycles"
\* the linear sweep of one segment, the step signed toward its end
StatedSegment(seg, step_mag) ==
    IF seg[1] = seg[2] THEN <<Fl(seg[1])>>
    ELSE _build_sweep_values(Fl(seg[1]), Fl(seg[2]),
                             IF seg[2] > seg[1] THEN Fl(step_mag)
                             ELSE -Fl(step_mag)).values
RECURSIVE JoinSegments(_, _, _)
\* the first segment whole, every later one without its first point
JoinSegments(segs, i, step_mag) ==
    IF i > Len(segs) THEN <<>>
    ELSE (IF i = 1 THEN StatedSegment(segs[i], step_mag)
          ELSE Tail(StatedSegment(segs[i], step_mag)))
         \o JoinSegments(segs, i + 1, step_mag)

\* C28: a custom sequence is, per segment (from, to), a linear sweep with
\* the step signed toward the direction (one point when from = to), the
\* first segment whole and every later one without its first point; it is
\* empty when the step is 0, cycles < 1, there is no segment or a segment
\* has no points; each cycle k >= 2 appends the single pass without its
\* first point, tagged k.
C28_CustomSequence ==
    IsCustomCall =>
        LET segs == gen.args[1]
            step_mag == Abs(gen.args[2])
            c == gen.args[3]
            single == JoinSegments(segs, 1, step_mag)
            none == \/ step_mag = 0 \/ c < 1 \/ segs = <<>>
                    \/ \E i \in 1..Len(segs) : StatedSegment(segs[i], step_mag) = <<>>
        IN  /\ gen.returns
            /\ none => gen.values = <<>> /\ gen.cycle_ids = <<>>
            /\ ~none => /\ gen.values = CyclePlan(single, 1, c)
                        /\ gen.cycle_ids = CycleTags(Len(single), 1, c)

\* two cycles over a rising and a falling segment
C28_Witness ==
    /\ IsCustomCall /\ gen.returns /\ gen.args[3] = 2 /\ Len(gen.args[1]) = 2
    /\ gen.args[1][1][1] < gen.args[1][1][2]
    /\ gen.args[1][2][2] < gen.args[1][2][1]
    /\ Len(gen.values) > 4
    /\ gen.cycle_ids[Len(gen.cycle_ids)] = 2

-----------------------------------------------------------------------------
(* The error drain *)

IsDrainCall == ret.op = "_check_instrument_errors" /\ ret.conn0 = "open"
IsCountQuery(e) == e.op = "query" /\ e.cmd = "print(errorqueue.count)"
IsPopQuery(e) == e.op = "query" /\ e.cmd = "errorqueue.next()"
IsStatusQuery(e) == e.op = "query" /\ e.cmd = "SYST:ERR?"
ReadThrough == \A i \in 1..Len(wire) : wire[i].ok /\ ~Unreadable(wire[i])
RECURSIVE NonzeroCodes(_, _)
\* the nonzero codes popped by w[i..], in the order popped
NonzeroCodes(w, i) ==
    IF i > Len(w) THEN <<>>
    ELSE (IF IsPopQuery(w[i]) /\ w[i].resp.n # 0 THEN <<w[i].resp.n>> ELSE <<>>)
         \o NonzeroCodes(w, i + 1)
NoErrorText(s) ==
    \/ Len(s) >= 1 /\ s[1] = "0"
    \/ Len(s) >= 2 /\ s[1] = "+" /\ s[2] = "0"

\* C31: the script-dialect error drain issues one error-queue count query
\* and then exactly count pop queries (none when the count is 0); it fails
\* exactly if a popped entry has a nonzero code, and reports the entries
\* with a nonzero code only.  The line-dialect drain issues exactly one
\* status query and fails exactly if the reply starts with neither '0' nor
\* '+0'.  (Every query going through with a readable reply.)
C31_DrainProtocol ==
    (IsDrainCall /\ ReadThrough) =>
        IF conn.mode = "tsp2600"
        THEN /\ Len(wire) >= 1 /\ IsCountQuery(wire[1])
             /\ Len(wire) = 1 + wire[1].resp.n
             /\ \A i \in 2..Len(wire) : IsPopQuery(wire[i])
             /\ Failed <=> NonzeroCodes(wire, 2) # <<>>
             /\ Failed => /\ ret.exc.msg = "Instrument error(s)"
                          /\ ret.exc.codes = NonzeroCodes(wire, 2)
        ELSE /\ Len(wire) = 1 /\ IsStatusQuery(wire[1])
             /\ Failed <=> ~NoErrorText(wire[1].resp.s)
             /\ Failed => ret.exc.msg = "Instrument error"

\* two entries popped, the first with code 0, the second reported
C31_Witness ==
    /\ IsDrainCall /\ ReadThrough /\ conn.mode = "tsp2600"
    /\ Len(wire) = 3 /\ wire[2].resp.n = 0 /\ wire[3].resp.n # 0
    /\ Len(ret.exc.codes) = 1

-----------------------------------------------------------------------------
(* The exclusive handle *)

IsOpen(e) == e.op = "open"
IsTransfer(e) == e.op \in {"write", "query"}
\* the first attempt of the handler to open a resource, 0 if it made none
FirstOpen == IF \E i \in 1..Len(wire) : IsOpen(wire[i])
             THEN CHOOSE i \in 1..Len(wire) :
                     IsOpen(wire[i]) /\ \A j \in 1..(i - 1) : ~IsOpen(wire[j])
             ELSE 0
\* the handler talked over the handle the session held when it began
UsedHeldHandle ==
    \E i \in 1..Len(wire) :
       IsTransfer(wire[i]) /\ \A j \in 1..(i - 1) : ~IsOpen(wire[j]) /\ ~IsRelease(wire[j])

\* C32 as stated: at most one transport handle is open at any time; a
\* connect() on an already-connected session zeroes the output and closes
\* the previous handle before it opens the new resource, and a handle that
\* was closed is never used again.
C32_ExclusiveHandle ==
    /\ (ret.op = "connect" /\ ret.conn0 = "open" /\ FirstOpen > 0) =>
          \E i, k \in 1..(FirstOpen - 1) :
             i < k /\ IsZeroLevel(wire[i]) /\ IsRelease(wire[k])
    /\ ret.conn0 = "closed" => ~UsedHeldHandle

\* C33: in every reachable state of the session, if no instrument handle is
\* held then the local output-enabled flag is false.
C33_FlagNeedsHandle == conn.inst = "none" => ~conn.output_enabled

\* close() on a session with the output enabled, the output-off write lost
C33_Witness ==
    /\ ret.op = "close" /\ ret.oe0 /\ conn.inst = "none" /\ ~conn.output_enabled
    /\ \E i \in 1..Len(wire) : IsOutputOff(wire[i]) /\ ~wire[i].ok

-----------------------------------------------------------------------------
(* One sweep at a time *)

\* the step callbacks waiting in the event loop
PendingSteps == (IF ui.sweep_after_id THEN 1 ELSE 0) + ui.orphans

\* C34 as stated: at most one host-paced sweep is in flight at any time --
\* while a sweep is running with a step callback pending no second sweep is
\* started, so there is never more than one step callback waiting to work
\* on the sweep index and the point list.
C34_OneSweepInFlight == PendingSteps <= 1

-----------------------------------------------------------------------------
(* The range of the generated points *)

\* C35 as stated: every voltage the linear sweep (start, stop, step)
\* produces lies between start and stop, min(start, stop) <= v <=
\* max(start, stop), for every nonzero step.
C35_SweepWithinRange ==
    (IsSweepCall /\ gen.args[3] # 0) =>
        \A i \in 1..Len(gen.values) :
           /\ Min(Fl(gen.args[1]), Fl(gen.args[2])) <= gen.values[i]
           /\ gen.values[i] <= Max(Fl(gen.args[1]), Fl(gen.args[2]))

\* C36 as stated: for every peak > 0, every nonzero step and every number
\* of cycles c >= 1 the simple-cycle point list contains +peak and -peak,
\* ends at 0 and carries every cycle id 1..c at least once, steps that do not
\* divide the peak and steps larger than the peak included.
C36_CycleReachesPeaks ==
    (IsCycleCall /\ gen.args[1] > 0 /\ gen.args[2] # 0 /\ gen.args[3] >= 1) =>
        /\ gen.returns
        /\ \E i \in 1..Len(gen.values) : gen.values[i] = Fl(gen.args[1])
        /\ \E i \in 1..Len(gen.values) : gen.values[i] = -Fl(gen.args[1])
        /\ gen.values # <<>> /\ gen.values[Len(gen.values)] = 0
        /\ \A k \in 1..gen.args[3] :
              \E i \in 1..Len(gen.cycle_ids) : gen.cycle_ids[i] = k

-----------------------------------------------------------------------------
(* The level at which the output is enabled *)

RECURSIVE DevAfter(_, _, _, _)
\* the instrument after the first k operations of w, d being the instrument
\* before them: delivered writes act on it, a delivered script leaves the
\* level at its last point
DevAfter(d, w, k, points) ==
    IF k = 0 THEN d
    ELSE LET p == DevAfter(d, w, k - 1, points)
             e == w[k]
         IN  IF ~e.ok THEN p
             ELSE IF e.op = "write" THEN DevApply(p, e.cmd, e.v)
             ELSE IF e.op = "query" /\ e.cmd = "script"
             THEN [p EXCEPT !.level = points[Len(points)].n]
             ELSE p

\* C37 as stated: whenever the instrument output goes from off to on, the
\* most recent source level the instrument received is 0.
C37_EnableAtZeroLevel ==
    [][\A i \in 1..Len(wire') :
          (/\ IsOutputOn(wire'[i]) /\ wire'[i].ok
           /\ DevAfter(dev, wire', i - 1, ret'.points).output = "off")
          => DevAfter(dev, wire', i - 1, ret'.points).level = 0]_vars

-----------------------------------------------------------------------------
(* The fast sweep *)

\* C38 as stated: a fast sweep that returns successfully returns exactly
\* one (voltage, current) pair per requested point, in request order.
C38_OnePairPerPoint ==
    (ret.op = "run_tsp_sweep" /\ ~Failed) =>
        /\ Len(ret.pairs) = Len(ret.points)
        /\ \A i \in 1..Len(ret.pairs) : ret.pairs[i] = ret.points[i].n

\* C39 as stated: the raised fast-sweep timeout covers the nominal duration
\* of the instrument-resident loop -- for every point count N and delay the
\* timeout in force during the script query is at least N * delay * 1000 ms.
C39_TimeoutCoversLoop ==
    ret.op = "run_tsp_sweep"
    => \A i \in 1..Len(wire) :
          IsScriptQuery(wire[i]) => wire[i].v * 1000 >= Len(ret.points) * ret.arg.n

\* C40 as stated: a sweep start that is rejected before any point is run --
\* fast execution requested while the session is not in the script dialect --
\* leaves the measurements logged before it unchanged.
C40_RejectedStartKeepsLog ==
    [][(/\ ret.op = "idle" /\ ret'.op = "fast_sweep"
        /\ ret'.exc.msg = "Fast TSP execution is available only when connected to Keithley 2600 in TSP mode.")
       => ui'.rows = ui.rows]_vars

====
